---- MODULE Spec2Model ----
(***************************************************************************)
(* Model of the event router (engine/source/router/src/router.cpp).        *)
(*                                                                         *)
(* The route table is the pair of maps m_namePriority / m_priorityRoute.   *)
(* Every section of code that runs under m_mutexRoutes is one atomic step; *)
(* the calls a handler makes outside the lock (addEnvironment,             *)
(* deleteEnvironment, the table read of tableToJson, store.update,         *)
(* forwardEvent) are steps of their own, so handlers of concurrent callers *)
(* and of the worker threads interleave between them.  A local of a        *)
(* handler is kept in call[c] only as long as the rest of the handler      *)
(* reads it.                                                               *)
(***************************************************************************)
EXTENDS Integers, Sequences, FiniteSets, TLC

\* ------------------------------------------------------------------ bounds
NumThreads == 2
QueueCapacity == 1
MaxCalls == 3

Names == {"A", "B"}
Unbuildable == {"X"}
Envs == {"envA", "envB"}
Events == {"e1", "e2"}
Callers == {"c1", "c2"}
Priorities == {1, 2, 3}
DispatchPriorities == {1, 2}
Workers == 1..NumThreads

NoName == "-"
NoEnv == "-"
NoEvent == "-"
NoQueue == "-"
Queues == {"q1", "q2"}
\* The queue whose contents the variable queue holds.
IntakeQueue == "q1"

VARIABLES
    m_namePriority,   \* route name -> priority
    m_priorityRoute,  \* priority -> sequence of NumThreads Route instances
    environments,     \* names registered with the environment manager
    storeTable,       \* the json last handed to store.update
    alive,            \* FALSE once dumpTableToStorage has called exit(10)
    m_isRunning,      \* the running flag
    m_queue,          \* the intake queue run() installed, NoQueue before the first run
    queue,            \* contents of the intake queue
    worker,           \* per worker thread: position, event in hand, target, shared lock held
    ctl,              \* position of the lifecycle caller (run / stop)
    pc,               \* per caller: position inside its current call
    call,             \* per caller: operation and arguments of the call
    err,              \* per caller: addRoute's local 'err'
    json,             \* per caller: the table read by getRouteTable
    ret,              \* per caller: value returned by the finished call
    fx,               \* per caller: effects of the current call so far
    calls,            \* number of calls issued so far
    m_threads,        \* the thread vector of run() / stop() under concurrent callers
    lc,               \* per lifecycle caller: position and locals of its run / stop
    m_activeSessions, \* session name -> Session
    m_routeMap,       \* route name -> session name
    m_policyMap,      \* policy name -> route name
    request,          \* the session-manager operation served last and its result
    opEvent,          \* the event the pipeline of helper operators is working on
    applied,          \* the helper operator applied last: definition, event before, result
    repl,             \* string.replace statement by statement: locals of the lambda
    api,              \* per caller: the API request being served and its response
    m_logFunctions,   \* log level -> the function registered for it
    logged,           \* the Logger call made last: arguments, invocations, how it ended
    parsed            \* the file-path parser built last and the parse made last

vars == <<m_namePriority, m_priorityRoute, environments, storeTable, alive,
          m_isRunning, m_queue, queue, worker, ctl, pc, call, err, json, ret, fx, calls,
          m_threads, lc, m_activeSessions, m_routeMap, m_policyMap, request,
          opEvent, applied, repl, api, m_logFunctions, logged, parsed>>

tableVars == <<m_namePriority, m_priorityRoute>>
dispatchVars == <<m_isRunning, m_queue, queue, worker, ctl>>
callerVars == <<pc, call, err, json, ret, fx>>
lifecycleVars == <<m_threads, lc>>
sessionVars == <<m_activeSessions, m_routeMap, m_policyMap, request>>
\* What no handler of the route table, the intake or the worker pool touches.
helperVars == <<opEvent, applied, repl>>
apiVars == <<api>>
loggerVars == <<m_logFunctions, logged>>
parserVars == <<parsed>>
utilVars == <<loggerVars, parserVars>>
otherVars == <<lifecycleVars, sessionVars, helperVars, apiVars, utilVars>>

\* ------------------------------------------------------------ route table

\* Route {filter, envName, priority}: the filter is the predicate that
\* buildRoute(name) compiled, identified here by the route name.
Route(name, envName, priority) ==
    [filter |-> name, target |-> envName, priority |-> priority]

\* routeInstances: the same route built once per thread.
RouteInstances(name, envName, priority) ==
    [i \in Workers |-> Route(name, envName, priority)]

\* Route::setPriority applied to every instance of a group.
SetPriorityAll(group, priority) ==
    [i \in DOMAIN group |-> [group[i] EXCEPT !.priority = priority]]

\* The two checks of addRoute under the lock; the second overwrites the first.
AddRouteCheck(np, pr, name, priority) ==
    LET e1 == IF name \in DOMAIN np THEN "AlreadyExists" ELSE "none"
        e2 == IF priority \in DOMAIN pr THEN "PriorityTaken" ELSE e1
    IN  e2

\* m_namePriority.insert / m_priorityRoute.insert: std::map insert keeps an
\* existing key's value.
MapInsert(m, k, v) ==
    IF k \in DOMAIN m THEN m ELSE [x \in DOMAIN m \cup {k} |-> IF x = k THEN v ELSE m[x]]

MapErase(m, k) == [x \in DOMAIN m \ {k} |-> m[x]]

EmptyMap == [x \in {} |-> 0]

\* Variant: m_priorityRoute.erase(it2) left out.
RemoveRouteRoutesKept(pr, priority) == pr

\* Variant: m_namePriority.erase(it) left out.
RemoveRouteNamesKept(np, name) == np

\* removeRoute's two erases.
RemoveRouteNames(np, name) == MapErase(np, name)
RemoveRouteRoutes(pr, priority) == MapErase(pr, priority)

\* Builder::buildRoute(name): compiles the named route definition, and throws
\* for a name it cannot compile.
BuildRouteThrows(name) == name \in Unbuildable

\* The environment manager: a registry of environments by name.  addEnvironment
\* reports an error for a name already registered, deleteEnvironment for a name
\* that is not.
AddEnvironmentFails(envs, name) == name \in envs
AddEnvironment(envs, name) == envs \cup {name}
DeleteEnvironmentFails(envs, name) == name \notin envs
DeleteEnvironment(envs, name) == envs \ {name}

\* Iteration of m_namePriority building the (name, priority, target) tuples;
\* m_priorityRoute.at() throws for a missing priority and the loop is left.
RECURSIVE TableRows(_, _, _)
TableRows(names, np, pr) ==
    IF names = {} THEN <<>>
    ELSE LET n == CHOOSE x \in names : TRUE
         IN  IF np[n] \notin DOMAIN pr THEN <<>>
             ELSE <<[name |-> n, priority |-> np[n], target |-> pr[np[n]][1].target]>>
                  \o TableRows(names \ {n}, np, pr)

\* Variant: the comparator reversed.
RECURSIVE InsertSortedDescending(_, _)
InsertSortedDescending(row, s) ==
    IF s = <<>> THEN <<row>>
    ELSE IF row.priority > Head(s).priority THEN <<row>> \o s
         ELSE <<Head(s)>> \o InsertSortedDescending(row, Tail(s))

\* std::sort with the comparator get<1>(a) < get<1>(b).
RECURSIVE InsertSorted(_, _)
InsertSorted(row, s) ==
    IF s = <<>> THEN <<row>>
    ELSE IF row.priority < Head(s).priority THEN <<row>> \o s
         ELSE <<Head(s)>> \o InsertSorted(row, Tail(s))

RECURSIVE SortByPriority(_)
SortByPriority(s) ==
    IF s = <<>> THEN <<>> ELSE InsertSorted(Head(s), SortByPriority(Tail(s)))

GetRouteTable(np, pr) == SortByPriority(TableRows(DOMAIN np, np, pr))

\* ------------------------------------------------------------ caller state

NoCall == [op |-> "none", name |-> NoName, env |-> NoEnv, priority |-> 0, event |-> NoEvent]
\* A caller of run / stop: position, the queue argument of run, the index of the
\* spawn loop, and the value the last call returned.
NoLifecycleCall == [pc |-> "idle", queue |-> NoQueue, i |-> 0, ret |-> "none"]
NoRequest == [op |-> "none"]
\* The empty optional of a getter of the event; no event in the pipeline.
Absent == [t |-> "absent"]
NoneApplied == [op |-> "none", target |-> <<>>, parameters |-> <<>>, before |-> Absent,
                result |-> "none", n |-> 0]
NoReplace == [pc |-> "idle", targetField |-> <<>>, parameters |-> <<>>, newString |-> <<>>,
              oldSubstring |-> <<>>, newSubstring |-> <<>>, start_pos |-> 0]
NoApiRequest == [st |-> "idle", params |-> EmptyMap, response |-> <<>>]
NoneLogged == [level |-> "none", tag |-> <<>>, msg |-> <<>>, sourceFile |-> <<>>,
               invoked |-> <<>>, outcome |-> "none", turn |-> 0]
NoParse == [st |-> "none", endTokens |-> <<>>, options |-> <<>>, text |-> <<>>, index |-> 0,
            result |-> EmptyMap]
NoFx == [wrote |-> FALSE, upd |-> 0, added |-> {}, deleted |-> {}, delCalls |-> <<>>]

Init ==
    /\ m_namePriority = EmptyMap
    /\ m_priorityRoute = EmptyMap
    /\ environments = {}
    /\ storeTable = <<>>
    /\ alive = TRUE
    /\ m_isRunning = FALSE
    /\ m_queue = NoQueue
    /\ queue = <<>>
    /\ worker = [i \in Workers |-> [st |-> "none", ev |-> NoEvent, tgt |-> NoEnv, lock |-> FALSE]]
    /\ ctl = "idle"
    /\ pc = [c \in Callers |-> "idle"]
    /\ call = [c \in Callers |-> NoCall]
    /\ err = [c \in Callers |-> "none"]
    /\ json = [c \in Callers |-> <<>>]
    /\ ret = [c \in Callers |-> "none"]
    /\ fx = [c \in Callers |-> NoFx]
    /\ calls = 0
    /\ m_threads = <<>>
    /\ lc = [c \in Callers |-> NoLifecycleCall]
    /\ m_activeSessions = EmptyMap
    /\ m_routeMap = EmptyMap
    /\ m_policyMap = EmptyMap
    /\ request = NoRequest
    /\ opEvent = Absent
    /\ applied = NoneApplied
    /\ repl = NoReplace
    /\ api = [c \in Callers |-> NoApiRequest]
    /\ m_logFunctions = EmptyMap
    /\ logged = NoneLogged
    /\ parsed = NoParse

\* A caller, free or holding the value its last call returned, issues a call:
\* operation and arguments.
InvokeCall(c, op, name, envName, priority, event) ==
    /\ alive /\ pc[c] \in {"idle", "done"} /\ calls < MaxCalls
    /\ calls' = calls + 1
    /\ pc' = [pc EXCEPT ![c] = "called"]
    /\ call' = [call EXCEPT ![c] = [op |-> op, name |-> name, env |-> envName,
                                    priority |-> priority, event |-> event]]
    /\ ret' = [ret EXCEPT ![c] = "none"]
    /\ json' = [json EXCEPT ![c] = <<>>]
    /\ fx' = [fx EXCEPT ![c] = NoFx]
    /\ UNCHANGED <<tableVars, environments, storeTable, alive, lifecycleVars, dispatchVars, err>>

\* The call issued by a caller of the router itself.
Invoke(c, op, name, envName, priority, event) ==
    /\ InvokeCall(c, op, name, envName, priority, event)
    /\ UNCHANGED <<sessionVars, helperVars, apiVars, utilVars>>

InCall(c, op) == alive /\ pc[c] = "called" /\ call[c].op = op

\* What is left of the call's locals once only envName is still read.
KeepEnv(c, envName) == [NoCall EXCEPT !.op = call[c].op, !.env = envName]

\* A call returns: position "done" with the returned value; its locals are gone.
Finish(c, value) ==
    /\ pc' = [pc EXCEPT ![c] = "done"]
    /\ ret' = [ret EXCEPT ![c] = value]
    /\ call' = [call EXCEPT ![c] = KeepEnv(c, NoEnv)]

\* std::unique_lock of m_mutexRoutes is granted once no worker holds it shared.
SharedLockFree == \A i \in DOMAIN worker : ~worker[i].lock

\* ---------------------------------------------------------------- addRoute

\* Variant: the error of addEnvironment is not read (lines 31-34 left out).
AddRouteBeginIgnoresEnvError(c) ==
    /\ InCall(c, "addRoute")
    /\ IF BuildRouteThrows(call[c].name)
         THEN /\ Finish(c, "BuildError")
              /\ UNCHANGED <<environments, fx>>
         ELSE /\ environments' = AddEnvironment(environments, call[c].env)
              /\ fx' = [fx EXCEPT ![c].added = @ \cup {call[c].env}]
              /\ pc' = [pc EXCEPT ![c] = "add_link"]
              /\ UNCHANGED <<ret, call>>
    /\ UNCHANGED <<tableVars, storeTable, alive, otherVars, dispatchVars, calls, err, json>>

\* Lines 19-34: the build loop and addEnvironment.  buildRoute throwing is
\* caught at line 61.
AddRouteBegin(c) ==
    /\ InCall(c, "addRoute")
    /\ IF BuildRouteThrows(call[c].name)
         THEN /\ Finish(c, "BuildError")
              /\ UNCHANGED <<environments, fx>>
         ELSE IF AddEnvironmentFails(environments, call[c].env)
                THEN /\ Finish(c, "EnvironmentError")
                     /\ UNCHANGED <<environments, fx>>
                ELSE /\ environments' = AddEnvironment(environments, call[c].env)
                     /\ fx' = [fx EXCEPT ![c].added = @ \cup {call[c].env}]
                     /\ pc' = [pc EXCEPT ![c] = "add_link"]
                     /\ UNCHANGED <<ret, call>>
    /\ UNCHANGED <<tableVars, storeTable, alive, otherVars, dispatchVars, calls, err, json>>

\* Lines 37-59: the section under the unique lock.
AddRouteLink(c) ==
    /\ alive /\ pc[c] = "add_link" /\ SharedLockFree
    /\ LET e == AddRouteCheck(m_namePriority, m_priorityRoute, call[c].name, call[c].priority)
       IN  IF e # "none"
             THEN /\ err' = [err EXCEPT ![c] = e]
                  /\ pc' = [pc EXCEPT ![c] = "add_rollback"]
                  /\ call' = [call EXCEPT ![c] = KeepEnv(c, call[c].env)]
                  /\ UNCHANGED <<tableVars, fx>>
             ELSE /\ m_namePriority' = MapInsert(m_namePriority, call[c].name, call[c].priority)
                  /\ m_priorityRoute' = MapInsert(m_priorityRoute, call[c].priority,
                                            RouteInstances(call[c].name, call[c].env, call[c].priority))
                  /\ fx' = [fx EXCEPT ![c].wrote = TRUE]
                  /\ pc' = [pc EXCEPT ![c] = "dump_read"]
                  /\ call' = [call EXCEPT ![c] = KeepEnv(c, NoEnv)]
                  /\ UNCHANGED err
    /\ UNCHANGED <<environments, storeTable, alive, otherVars, dispatchVars, calls, json, ret>>

\* Variant: the error is returned without deleteEnvironment.
AddRouteRollbackKeepsEnvironment(c) ==
    /\ alive /\ pc[c] = "add_rollback"
    /\ Finish(c, err[c])
    /\ err' = [err EXCEPT ![c] = "none"]
    /\ UNCHANGED <<tableVars, environments, storeTable, alive, otherVars, dispatchVars, calls, json, fx>>

\* Lines 53-55: after unlock, deleteEnvironment(envName) and return err.
AddRouteRollback(c) ==
    /\ alive /\ pc[c] = "add_rollback"
    /\ environments' = DeleteEnvironment(environments, call[c].env)
    /\ fx' = [fx EXCEPT ![c].deleted = @ \cup ({call[c].env} \cap environments),
                        ![c].delCalls = Append(@, call[c].env)]
    /\ Finish(c, err[c])
    /\ err' = [err EXCEPT ![c] = "none"]
    /\ UNCHANGED <<tableVars, storeTable, alive, otherVars, dispatchVars, calls, json>>

\* ------------------------------------------------------------- removeRoute

\* Lines 71-89: the section under the unique lock.
RemoveRouteLocked(c) ==
    /\ InCall(c, "removeRoute") /\ SharedLockFree
    /\ LET name == call[c].name IN
       IF name \notin DOMAIN m_namePriority
         THEN /\ Finish(c, "NotFound")
              /\ UNCHANGED <<tableVars, fx>>
         ELSE LET priority == m_namePriority[name] IN
              IF priority \notin DOMAIN m_priorityRoute
                THEN /\ Finish(c, "PriorityNotFound")
                     /\ UNCHANGED <<tableVars, fx>>
                ELSE /\ call' = [call EXCEPT ![c] = KeepEnv(c, m_priorityRoute[priority][1].target)]
                     /\ m_namePriority' = RemoveRouteNames(m_namePriority, name)
                     /\ m_priorityRoute' = RemoveRouteRoutes(m_priorityRoute, priority)
                     /\ fx' = [fx EXCEPT ![c].wrote = TRUE]
                     /\ pc' = [pc EXCEPT ![c] = "dump_read"]
                     /\ UNCHANGED ret
    /\ UNCHANGED <<environments, storeTable, alive, otherVars, dispatchVars, calls, err, json>>

\* Variant: deleteEnvironment is called a second time and that result returned.
RemoveRouteDeleteEnvTwice(c) ==
    /\ alive /\ pc[c] = "rm_delenv"
    /\ environments' = DeleteEnvironment(environments, call[c].env)
    /\ fx' = [fx EXCEPT ![c].deleted = @ \cup ({call[c].env} \cap environments),
                        ![c].delCalls = Append(Append(@, call[c].env), call[c].env)]
    /\ Finish(c, IF DeleteEnvironmentFails(environments', call[c].env) THEN "EnvironmentError" ELSE "ok")
    /\ UNCHANGED <<tableVars, storeTable, alive, otherVars, dispatchVars, calls, err, json>>

\* Line 92: return m_environmentManager->deleteEnvironment(envName).
RemoveRouteDeleteEnv(c) ==
    /\ alive /\ pc[c] = "rm_delenv"
    /\ environments' = DeleteEnvironment(environments, call[c].env)
    /\ fx' = [fx EXCEPT ![c].deleted = @ \cup ({call[c].env} \cap environments),
                        ![c].delCalls = Append(@, call[c].env)]
    /\ Finish(c, IF DeleteEnvironmentFails(environments, call[c].env) THEN "EnvironmentError" ELSE "ok")
    /\ UNCHANGED <<tableVars, storeTable, alive, otherVars, dispatchVars, calls, err, json>>

\* ----------------------------------------------------- changeRoutePriority

\* Variant: it->second = priority left out.
ChangePriorityNamesStale(np, name, priority) == np

\* Variant: the setPriority loop left out.
ChangePriorityRoutesKeepsPriority(pr, oldPriority, priority) ==
    MapErase(MapInsert(pr, priority, pr[oldPriority]), oldPriority)

\* Lines 150-166: setPriority on every instance, then both maps.
ChangePriorityNames(np, name, priority) == [np EXCEPT ![name] = priority]

ChangePriorityRoutes(pr, oldPriority, priority) ==
    MapErase(MapInsert(pr, priority, SetPriorityAll(pr[oldPriority], priority)), oldPriority)

\* Lines 124-167: the whole section under the unique lock.
ChangeRoutePriorityLocked(c) ==
    /\ InCall(c, "changeRoutePriority") /\ SharedLockFree
    /\ LET name == call[c].name
           priority == call[c].priority
       IN
       IF name \notin DOMAIN m_namePriority
         THEN /\ Finish(c, "NotFound")
              /\ UNCHANGED <<tableVars, fx>>
         ELSE LET oldPriority == m_namePriority[name] IN
              IF oldPriority = priority
                THEN /\ Finish(c, "ok")
                     /\ UNCHANGED <<tableVars, fx>>
                ELSE IF oldPriority \notin DOMAIN m_priorityRoute
                  THEN /\ Finish(c, "PriorityNotFound")
                       /\ UNCHANGED <<tableVars, fx>>
                  ELSE IF priority \in DOMAIN m_priorityRoute
                    THEN /\ Finish(c, "PriorityTaken")
                         /\ UNCHANGED <<tableVars, fx>>
                    ELSE /\ m_namePriority' = ChangePriorityNames(m_namePriority, name, priority)
                         /\ m_priorityRoute' = ChangePriorityRoutes(m_priorityRoute, oldPriority, priority)
                         /\ fx' = [fx EXCEPT ![c].wrote = TRUE]
                         /\ pc' = [pc EXCEPT ![c] = "dump_read"]
                         /\ call' = [call EXCEPT ![c] = KeepEnv(c, NoEnv)]
                         /\ UNCHANGED ret
    /\ UNCHANGED <<environments, storeTable, alive, otherVars, dispatchVars, calls, err, json>>

\* ----------------------------------------------------------- getRouteTable

\* Lines 95-120 as a call of its own.
GetRouteTableCall(c) ==
    /\ InCall(c, "getRouteTable")
    /\ json' = [json EXCEPT ![c] = GetRouteTable(m_namePriority, m_priorityRoute)]
    /\ Finish(c, "ok")
    /\ UNCHANGED <<tableVars, environments, storeTable, alive, otherVars, dispatchVars, calls, err, fx>>

\* ------------------------------------------------------ dumpTableToStorage

\* Variant: the table is serialised in the iteration order of m_namePriority.
DumpReadUnsorted(c) ==
    /\ alive /\ pc[c] = "dump_read"
    /\ json' = [json EXCEPT ![c] = TableRows(DOMAIN m_namePriority, m_namePriority, m_priorityRoute)]
    /\ pc' = [pc EXCEPT ![c] = "dump_store"]
    /\ UNCHANGED <<tableVars, environments, storeTable, alive, otherVars, dispatchVars, calls, call, err, ret, fx>>

\* Line 428, the argument: tableToJson() reads the table through getRouteTable.
DumpRead(c) ==
    /\ alive /\ pc[c] = "dump_read"
    /\ json' = [json EXCEPT ![c] = GetRouteTable(m_namePriority, m_priorityRoute)]
    /\ pc' = [pc EXCEPT ![c] = "dump_store"]
    /\ UNCHANGED <<tableVars, environments, storeTable, alive, otherVars, dispatchVars, calls, call, err, ret, fx>>

\* Line 428, the call: m_store->update(ROUTES_TABLE_NAME, json), then back in the
\* handler: removeRoute goes on to deleteEnvironment, the others return.
DumpStoreOk(c) ==
    /\ alive /\ pc[c] = "dump_store"
    /\ storeTable' = json[c]
    /\ fx' = [fx EXCEPT ![c].upd = @ + 1]
    /\ json' = [json EXCEPT ![c] = <<>>]
    /\ IF call[c].op = "removeRoute"
         THEN pc' = [pc EXCEPT ![c] = "rm_delenv"] /\ UNCHANGED <<ret, call>>
         ELSE Finish(c, "ok")
    /\ UNCHANGED <<tableVars, environments, alive, otherVars, dispatchVars, calls, err>>

\* Variant: the error of store.update is logged and the handler goes on.
DumpStoreFailReturns(c) ==
    /\ alive /\ pc[c] = "dump_store"
    /\ json' = [json EXCEPT ![c] = <<>>]
    /\ IF call[c].op = "removeRoute"
         THEN pc' = [pc EXCEPT ![c] = "rm_delenv"] /\ UNCHANGED <<ret, call>>
         ELSE Finish(c, "ok")
    /\ UNCHANGED <<tableVars, environments, storeTable, alive, otherVars, dispatchVars, calls, err, fx>>

\* Lines 429-433: store.update reports an error and the process exits.
DumpStoreFail(c) ==
    /\ alive /\ pc[c] = "dump_store"
    /\ alive' = FALSE
    /\ UNCHANGED <<tableVars, environments, storeTable, otherVars, dispatchVars, calls, callerVars>>

\* ------------------------------------------------------------ administration

InvokeAdmin(c) ==
    \/ \E n \in Names \cup Unbuildable, e \in Envs, p \in Priorities : Invoke(c, "addRoute", n, e, p, NoEvent)
    \/ \E n \in Names : Invoke(c, "removeRoute", n, NoEnv, 0, NoEvent)
    \/ \E n \in Names, p \in Priorities : Invoke(c, "changeRoutePriority", n, NoEnv, p, NoEvent)
    \/ Invoke(c, "getRouteTable", NoName, NoEnv, 0, NoEvent)

AdminStep(c) ==
    \/ InvokeAdmin(c)
    \/ AddRouteBegin(c)
    \/ AddRouteLink(c)
    \/ AddRouteRollback(c)
    \/ RemoveRouteLocked(c)
    \/ RemoveRouteDeleteEnv(c)
    \/ ChangeRoutePriorityLocked(c)
    \/ GetRouteTableCall(c)
    \/ DumpRead(c)
    \/ DumpStoreOk(c)
    \/ DumpStoreFail(c)

AdminNext == \E c \in Callers : AdminStep(c)

\* Concurrent callers of the administrative operations.
AdminSpec == Init /\ [][AdminNext]_vars

\* ------------------------------------------------------------ enqueueEvent

\* Variant: the running flag is not read.
EnqueueCheckIgnoresFlag(c) ==
    /\ InCall(c, "enqueueEvent")
    /\ pc' = [pc EXCEPT ![c] = "enq_offer"]
    /\ UNCHANGED <<tableVars, environments, storeTable, alive, otherVars, dispatchVars, calls, call, ret, err, json, fx>>

\* Line 175: the running flag and the queue pointer are read first.
EnqueueCheck(c) ==
    /\ InCall(c, "enqueueEvent")
    /\ IF ~m_isRunning \/ m_queue = NoQueue
         THEN Finish(c, "NotRunning")
         ELSE pc' = [pc EXCEPT ![c] = "enq_offer"] /\ UNCHANGED <<ret, call>>
    /\ UNCHANGED <<tableVars, environments, storeTable, alive, otherVars, dispatchVars, calls, err, json, fx>>

\* The intake queue's non-blocking offer: refused when the queue is full.
TryEnqueue(q, event) == IF Len(q) < QueueCapacity THEN Append(q, event) ELSE q

\* Lines 179-183: try_enqueue and the value returned.
EnqueueOffer(c) ==
    /\ alive /\ pc[c] = "enq_offer"
    /\ queue' = TryEnqueue(queue, call[c].event)
    /\ Finish(c, IF queue' # queue THEN "ok" ELSE "HighLoad")
    /\ UNCHANGED <<tableVars, environments, storeTable, alive, otherVars, m_isRunning, m_queue, worker, ctl,
                   calls, err, json, fx>>

\* ------------------------------------------------------------------ workers

\* Route::accept of the predicate built for a route name: the route named "A"
\* accepts every event, every other route accepts only "e2".
Accept(route, event) == route.filter = "A" \/ event = "e2"

\* Variant: the map is walked from its highest key down.
RECURSIVE FirstAcceptingDescending(_, _, _, _)
FirstAcceptingDescending(keys, pr, i, event) ==
    IF keys = {} THEN NoEnv
    ELSE LET k == CHOOSE x \in keys : \A y \in keys : x >= y
         IN  IF Accept(pr[k][i], event) THEN pr[k][i].target
             ELSE FirstAcceptingDescending(keys \ {k}, pr, i, event)

\* Lines 208-217: m_priorityRoute is walked in key order, instance i of each
\* group is asked, and the walk ends at the first route that accepts.
RECURSIVE FirstAccepting(_, _, _, _)
FirstAccepting(keys, pr, i, event) ==
    IF keys = {} THEN NoEnv
    ELSE LET k == CHOOSE x \in keys : \A y \in keys : x <= y
         IN  IF Accept(pr[k][i], event) THEN pr[k][i].target
             ELSE FirstAccepting(keys \ {k}, pr, i, event)

IdleWorker(st) == [st |-> st, ev |-> NoEvent, tgt |-> NoEnv, lock |-> FALSE]

\* Line 202: the loop condition.
WorkerCheckRunning(i) ==
    /\ alive /\ worker[i].st = "loop"
    /\ worker' = [worker EXCEPT ![i] = IdleWorker(IF m_isRunning THEN "wait" ELSE "finished")]
    /\ UNCHANGED <<tableVars, environments, storeTable, alive, otherVars, m_isRunning, m_queue, queue, ctl,
                   calls, callerVars>>

\* Variant: the event is read at the head of the queue and left there.
WorkerDequeuePeeks(i) ==
    /\ alive /\ worker[i].st = "wait" /\ queue # <<>>
    /\ worker' = [worker EXCEPT ![i] = [st |-> "have", ev |-> Head(queue), tgt |-> NoEnv, lock |-> FALSE]]
    /\ UNCHANGED <<tableVars, environments, storeTable, alive, otherVars, m_isRunning, m_queue, queue, ctl,
                   calls, callerVars>>

\* Line 205: wait_dequeue_timed hands over the event at the head of the queue.
WorkerDequeue(i) ==
    /\ alive /\ worker[i].st = "wait" /\ queue # <<>>
    /\ worker' = [worker EXCEPT ![i] = [st |-> "have", ev |-> Head(queue), tgt |-> NoEnv, lock |-> FALSE]]
    /\ queue' = Tail(queue)
    /\ UNCHANGED <<tableVars, environments, storeTable, alive, otherVars, m_isRunning, m_queue, ctl,
                   calls, callerVars>>

\* Line 205: wait_dequeue_timed times out on an empty queue.
WorkerTimeout(i) ==
    /\ alive /\ worker[i].st = "wait" /\ queue = <<>>
    /\ worker' = [worker EXCEPT ![i] = IdleWorker("loop")]
    /\ UNCHANGED <<tableVars, environments, storeTable, alive, otherVars, m_isRunning, m_queue, queue, ctl,
                   calls, callerVars>>

\* Variant: lock.unlock() of line 213 left out; the lock is then held until the
\* end of the block, across forwardEvent.
WorkerScanKeepsLock(i) ==
    /\ alive /\ worker[i].st = "have"
    /\ LET target == FirstAccepting(DOMAIN m_priorityRoute, m_priorityRoute, i, worker[i].ev)
       IN  worker' = [worker EXCEPT ![i] =
                        IF target = NoEnv THEN IdleWorker("loop")
                        ELSE [@ EXCEPT !.st = "forward", !.tgt = target, !.lock = TRUE]]
    /\ UNCHANGED <<tableVars, environments, storeTable, alive, otherVars, m_isRunning, m_queue, queue, ctl,
                   calls, callerVars>>

\* Lines 207-217: the shared lock is taken and the map walked; the lock is
\* released at line 213 with the target in hand, or at the end of the block
\* (line 218) when no route accepted.
WorkerScan(i) ==
    /\ alive /\ worker[i].st = "have"
    /\ LET target == FirstAccepting(DOMAIN m_priorityRoute, m_priorityRoute, i, worker[i].ev)
       IN  worker' = [worker EXCEPT ![i] =
                        IF target = NoEnv THEN IdleWorker("loop")
                        ELSE [@ EXCEPT !.st = "forward", !.tgt = target, !.lock = FALSE]]
    /\ UNCHANGED <<tableVars, environments, storeTable, alive, otherVars, m_isRunning, m_queue, queue, ctl,
                   calls, callerVars>>

\* forwardEvent of the environment manager reports its outcome as a value.
ForwardResults == {"ok", "error"}

\* Variant: a failed forwardEvent ends the thread.
WorkerForwardStopsOnError(i) ==
    /\ alive /\ worker[i].st = "forward"
    /\ \E result \in ForwardResults :
          worker' = [worker EXCEPT ![i] = IdleWorker(IF result = "error" THEN "finished" ELSE "loop")]
    /\ UNCHANGED <<tableVars, environments, storeTable, alive, otherVars, m_isRunning, m_queue, queue, ctl,
                   calls, callerVars>>

\* Line 214: forwardEvent(target, i, event), then break: the step that leaves
\* position "forward" is the one call of forwardEvent, with the target and the
\* event in hand; what the call returns is not read, and the event goes out of
\* scope at the end of the iteration.
WorkerForward(i) ==
    /\ alive /\ worker[i].st = "forward"
    /\ \E result \in ForwardResults :
          worker' = [worker EXCEPT ![i] = IdleWorker("loop")]
    /\ UNCHANGED <<tableVars, environments, storeTable, alive, otherVars, m_isRunning, m_queue, queue, ctl,
                   calls, callerVars>>

WorkerStep(i) ==
    \/ WorkerCheckRunning(i)
    \/ WorkerDequeue(i)
    \/ WorkerTimeout(i)
    \/ WorkerScan(i)
    \/ WorkerForward(i)

\* ---------------------------------------------------------------- lifecycle

\* Lines 188-224 on a stopped router: the queue is installed, the flag set and
\* one worker per thread index started.
RunStart ==
    /\ alive /\ ctl = "idle" /\ ~m_isRunning
    /\ m_queue' = IntakeQueue
    /\ m_isRunning' = TRUE
    /\ worker' = [i \in Workers |-> IdleWorker("loop")]
    /\ UNCHANGED <<tableVars, environments, storeTable, alive, otherVars, queue, ctl, calls, callerVars>>

\* Lines 229-233: stop() on a running router clears the flag and starts joining.
StopBegin ==
    /\ alive /\ ctl = "idle" /\ m_isRunning
    /\ m_isRunning' = FALSE
    /\ ctl' = "joining"
    /\ UNCHANGED <<tableVars, environments, storeTable, alive, otherVars, m_queue, queue, worker, calls, callerVars>>

\* Lines 229-232: stop() on a router that is not running returns at once.
StopNoop ==
    /\ alive /\ ctl = "idle" /\ ~m_isRunning
    /\ UNCHANGED vars

\* Variant: the join loop left out, m_threads cleared at once.
StopJoinWithoutWaiting ==
    /\ alive /\ ctl = "joining"
    /\ worker' = [i \in Workers |-> IdleWorker("none")]
    /\ ctl' = "idle"
    /\ UNCHANGED <<tableVars, environments, storeTable, alive, otherVars, m_isRunning, m_queue, queue, calls, callerVars>>

\* Lines 234-238: every thread is joined, then m_threads is cleared.
StopJoin ==
    /\ alive /\ ctl = "joining"
    /\ \A i \in Workers : worker[i].st = "finished"
    /\ worker' = [i \in Workers |-> IdleWorker("none")]
    /\ ctl' = "idle"
    /\ UNCHANGED <<tableVars, environments, storeTable, alive, otherVars, m_isRunning, m_queue, queue, calls, callerVars>>

\* ------------------------------------------- run / stop, concurrent callers

\* run() and stop() statement by statement, for callers that are not
\* serialised.  run() takes m_mutexRoutes shared, which does not exclude a
\* second run(); stop() takes no lock.  A thread of m_threads is here only
\* live or finished: it leaves its loop at a read of the flag that finds it
\* false (line 202).  emplace_back and the join loop on the one vector are
\* taken as steps that do not tear.
LiveThreads == {k \in DOMAIN m_threads : m_threads[k].st = "live"}

LifecycleReturn(c, value) == lc' = [lc EXCEPT ![c] = [NoLifecycleCall EXCEPT !.ret = value]]

RunCall(c, q) ==
    /\ alive /\ lc[c].pc = "idle" /\ calls < MaxCalls
    /\ calls' = calls + 1
    /\ lc' = [lc EXCEPT ![c] = [pc |-> "run_check", queue |-> q, i |-> 0, ret |-> "none"]]
    /\ UNCHANGED <<tableVars, environments, storeTable, alive, dispatchVars, callerVars,
                   m_threads, sessionVars, helperVars, apiVars, utilVars>>

\* Lines 190-193: the flag is read.
RunCheck(c) ==
    /\ alive /\ lc[c].pc = "run_check"
    /\ IF m_isRunning
         THEN LifecycleReturn(c, "AlreadyRunning")
         ELSE lc' = [lc EXCEPT ![c].pc = "run_install"]
    /\ UNCHANGED <<tableVars, environments, storeTable, alive, dispatchVars, callerVars, calls,
                   m_threads, sessionVars, helperVars, apiVars, utilVars>>

\* Line 194: m_queue = queue.
RunInstall(c) ==
    /\ alive /\ lc[c].pc = "run_install"
    /\ m_queue' = lc[c].queue
    /\ lc' = [lc EXCEPT ![c].pc = "run_flag"]
    /\ UNCHANGED <<tableVars, environments, storeTable, alive, m_isRunning, queue, worker, ctl,
                   callerVars, calls, m_threads, sessionVars, helperVars, apiVars, utilVars>>

\* Line 195: m_isRunning.store(true).
RunSetFlag(c) ==
    /\ alive /\ lc[c].pc = "run_flag"
    /\ m_isRunning' = TRUE
    /\ lc' = [lc EXCEPT ![c].pc = "run_spawn", ![c].i = 1]
    /\ UNCHANGED <<tableVars, environments, storeTable, alive, m_queue, queue, worker, ctl,
                   callerVars, calls, m_threads, sessionVars, helperVars, apiVars, utilVars>>

\* Lines 197-224: one pass of the spawn loop; the thread captures the queue
\* argument and its index.  The last pass returns.
RunSpawn(c) ==
    /\ alive /\ lc[c].pc = "run_spawn"
    /\ m_threads' = Append(m_threads, [i |-> lc[c].i, queue |-> lc[c].queue, st |-> "live"])
    /\ IF lc[c].i < NumThreads
         THEN lc' = [lc EXCEPT ![c].i = @ + 1]
         ELSE LifecycleReturn(c, "ok")
    /\ UNCHANGED <<tableVars, environments, storeTable, alive, dispatchVars, callerVars, calls,
                   sessionVars, helperVars, apiVars, utilVars>>

\* Line 202: a thread reads the flag false and leaves its loop.
ThreadExit(k) ==
    /\ alive /\ k \in LiveThreads /\ ~m_isRunning
    /\ m_threads' = [m_threads EXCEPT ![k].st = "finished"]
    /\ UNCHANGED <<tableVars, environments, storeTable, alive, dispatchVars, callerVars, calls,
                   lc, sessionVars, helperVars, apiVars, utilVars>>

StopCall(c) ==
    /\ alive /\ lc[c].pc = "idle" /\ calls < MaxCalls
    /\ calls' = calls + 1
    /\ lc' = [lc EXCEPT ![c] = [NoLifecycleCall EXCEPT !.pc = "stop_check"]]
    /\ UNCHANGED <<tableVars, environments, storeTable, alive, dispatchVars, callerVars,
                   m_threads, sessionVars, helperVars, apiVars, utilVars>>

\* Lines 229-232: the flag is read.
StopCheck(c) ==
    /\ alive /\ lc[c].pc = "stop_check"
    /\ IF ~m_isRunning
         THEN LifecycleReturn(c, "stopped")
         ELSE lc' = [lc EXCEPT ![c].pc = "stop_store"]
    /\ UNCHANGED <<tableVars, environments, storeTable, alive, dispatchVars, callerVars, calls,
                   m_threads, sessionVars, helperVars, apiVars, utilVars>>

\* Line 233: m_isRunning.store(false).
StopStore(c) ==
    /\ alive /\ lc[c].pc = "stop_store"
    /\ m_isRunning' = FALSE
    /\ lc' = [lc EXCEPT ![c].pc = "stop_join"]
    /\ UNCHANGED <<tableVars, environments, storeTable, alive, m_queue, queue, worker, ctl,
                   callerVars, calls, m_threads, sessionVars, helperVars, apiVars, utilVars>>

\* Lines 234-238: the join loop ends once every thread has finished, then
\* m_threads.clear().
StopJoinAll(c) ==
    /\ alive /\ lc[c].pc = "stop_join"
    /\ LiveThreads = {}
    /\ m_threads' = <<>>
    /\ LifecycleReturn(c, "stopped")
    /\ UNCHANGED <<tableVars, environments, storeTable, alive, dispatchVars, callerVars, calls,
                   sessionVars, helperVars, apiVars, utilVars>>

LifecycleStep(c) ==
    \/ \E q \in Queues : RunCall(c, q)
    \/ RunCheck(c)
    \/ RunInstall(c)
    \/ RunSetFlag(c)
    \/ RunSpawn(c)
    \/ StopCall(c)
    \/ StopCheck(c)
    \/ StopStore(c)
    \/ StopJoinAll(c)

LifecycleNext ==
    \/ \E c \in Callers : LifecycleStep(c)
    \/ \E k \in DOMAIN m_threads : ThreadExit(k)

\* run() and stop() called by two threads at once.
LifecycleSpec == Init /\ [][LifecycleNext]_vars

\* ------------------------------------------- run / stop, threads scheduled

\* The steps of a run() or stop() call that has been made.
LifecycleProgress(c) ==
    \/ RunCheck(c)
    \/ RunInstall(c)
    \/ RunSetFlag(c)
    \/ RunSpawn(c)
    \/ StopCheck(c)
    \/ StopStore(c)
    \/ StopJoinAll(c)

\* run() and stop() called by two threads at once, every thread scheduled
\* again and again: a call that has been made takes its next step when it
\* can, and a worker that can leave its loop does.  Nothing obliges a caller
\* to make a call.
LifecycleFairSpec ==
    /\ Init /\ [][LifecycleNext]_vars
    /\ \A c \in Callers : WF_vars(LifecycleProgress(c))
    /\ WF_vars(\E k \in DOMAIN m_threads : ThreadExit(k))

\* ------------------------------------------------------------------ dispatch

Mutator == "c1"
Producer == "c2"

\* The table changes that matter to the workers: routes that build, at the two
\* lowest priorities.
MutatorStep(c) ==
    \/ \E n \in Names, e \in Envs, p \in DispatchPriorities : Invoke(c, "addRoute", n, e, p, NoEvent)
    \/ \E n \in Names : Invoke(c, "removeRoute", n, NoEnv, 0, NoEvent)
    \/ \E n \in Names, p \in DispatchPriorities : Invoke(c, "changeRoutePriority", n, NoEnv, p, NoEvent)
    \/ AddRouteBegin(c)
    \/ AddRouteLink(c)
    \/ AddRouteRollback(c)
    \/ RemoveRouteLocked(c)
    \/ RemoveRouteDeleteEnv(c)
    \/ ChangeRoutePriorityLocked(c)
    \/ DumpRead(c)
    \/ DumpStoreOk(c)
    \/ DumpStoreFail(c)

ProducerStep(c) ==
    \/ \E e \in Events : Invoke(c, "enqueueEvent", NoName, NoEnv, 0, e)
    \/ EnqueueCheck(c)
    \/ EnqueueOffer(c)

DispatchNext ==
    \/ RunStart
    \/ StopBegin
    \/ StopNoop
    \/ StopJoin
    \/ \E i \in Workers : WorkerStep(i)
    \/ ProducerStep(Producer)
    \/ MutatorStep(Mutator)

\* The worker pool and a producer, with one caller changing the route table.
DispatchSpec == Init /\ [][DispatchNext]_vars

\* -------------------------------------------------------------------- intake

\* The events of the producer are told apart: its k-th call carries the k-th
\* of these (the route named "A" accepts each of them, the others only "e2").
EventOfCall == <<"e1", "e2", "e3", "e4", "e5", "e6">>
ProducerEvents == {EventOfCall[k] : k \in 1..MaxCalls}

IntakeProducerStep(c) ==
    \/ Invoke(c, "enqueueEvent", NoName, NoEnv, 0, EventOfCall[calls + 1])
    \/ EnqueueCheck(c)
    \/ EnqueueOffer(c)

\* A route is added while events are on their way: the route "A", which
\* accepts every event.
IntakeMutatorStep(c) ==
    \/ Invoke(c, "addRoute", "A", "envA", 1, NoEvent)
    \/ AddRouteBegin(c)
    \/ AddRouteLink(c)
    \/ DumpRead(c)
    \/ DumpStoreOk(c)

IntakeNext ==
    \/ RunStart
    \/ StopBegin
    \/ StopJoin
    \/ \E i \in Workers : WorkerStep(i)
    \/ IntakeProducerStep(Producer)
    \/ IntakeMutatorStep(Mutator)

\* The worker pool, a producer of distinct events and a caller adding routes;
\* every worker thread is scheduled again and again.
IntakeSpec ==
    /\ Init /\ [][IntakeNext]_vars
    /\ \A i \in Workers : WF_vars(WorkerStep(i))

\* ===================================================================
\* Session manager (engine/source/api/src/test/sessionManager.cpp)
\* ===================================================================

\* Every operation runs from its first statement to its return under
\* m_sessionMutex (exclusive for createSession and deleteSessions, shared for
\* the readers), so each is one step.  request holds the operation the step
\* served, its arguments and the value it returned.

SessionNames == {"s1", "s2"}
PolicyNames == {"p1", "p2"}
FilterNames == {"f1"}
RouteNames == {"r1", "r2"}
Lifespans == {0, 30}
Descriptions == {"d1", "d2"}

routerVars == <<tableVars, environments, storeTable, alive, dispatchVars, callerVars, calls,
                lifecycleVars>>
sessionMaps == <<m_activeSessions, m_routeMap, m_policyMap>>

\* Line 45: Session session(sessionName, policyName, filterName, routeName,
\* lifespan, description).
Session(sessionName, policyName, filterName, routeName, lifespan, description) ==
    [sessionName |-> sessionName, policyName |-> policyName, filterName |-> filterName,
     routeName |-> routeName, lifespan |-> lifespan, description |-> description]

NoSession == [sessionName |-> NoName]

\* Variant: the check of the policy map left out.
PolicyIsBoundNever(pm, policyName) == FALSE

\* Lines 33 and 38: the two checks of createSession.
SessionExists(act, sessionName) == sessionName \in DOMAIN act
PolicyIsBound(pm, policyName) == policyName \in DOMAIN pm

\* Lines 26-62.  emplace, like insert, keeps the entry of a key already there.
CreateSession(sessionName, policyName, filterName, routeName, lifespan, description) ==
    LET session == Session(sessionName, policyName, filterName, routeName, lifespan, description)
        result == IF SessionExists(m_activeSessions, sessionName) THEN "SessionExists"
                  ELSE IF PolicyIsBound(m_policyMap, policyName) THEN "PolicyBound"
                  ELSE "ok"
    IN  /\ request' = [op |-> "createSession", session |-> session, ret |-> result]
        /\ IF result = "ok"
             THEN /\ m_activeSessions' = MapInsert(m_activeSessions, sessionName, session)
                  /\ m_routeMap' = MapInsert(m_routeMap, routeName, sessionName)
                  /\ m_policyMap' = MapInsert(m_policyMap, policyName, routeName)
             ELSE UNCHANGED sessionMaps
        /\ UNCHANGED <<routerVars, helperVars, apiVars, utilVars>>

\* Lines 66-76: the names of the active sessions.
GetSessionsList ==
    /\ request' = [op |-> "getSessionsList", ret |-> DOMAIN m_activeSessions]
    /\ UNCHANGED <<sessionMaps, routerVars, helperVars, apiVars, utilVars>>

\* Lines 79-88 as a function of the session map.
FindSession(act, sessionName) == IF sessionName \in DOMAIN act THEN act[sessionName] ELSE NoSession

GetSession(sessionName) ==
    /\ request' = [op |-> "getSession", sessionName |-> sessionName,
                   ret |-> FindSession(m_activeSessions, sessionName)]
    /\ UNCHANGED <<sessionMaps, routerVars, helperVars, apiVars, utilVars>>

\* Lines 129-141.
DoesSessionExist(sessionName) ==
    /\ request' = [op |-> "doesSessionExist", sessionName |-> sessionName,
                   ret |-> (sessionName \in DOMAIN m_activeSessions)]
    /\ UNCHANGED <<sessionMaps, routerVars, helperVars, apiVars, utilVars>>

\* Variant: m_policyMap.erase(policyName) left out.
ErasePolicyKept(pm, policyName) == pm

\* Variant: m_routeMap.erase(routeName) left out.
EraseRouteKept(rm, routeName) == rm

\* Lines 114 and 115: the erases by the policy and the route of the session
\* found; the two names are the ones read from the session at 110-111.
ErasePolicy(pm, policyName) == MapErase(pm, policyName)
EraseRoute(rm, routeName) == MapErase(rm, routeName)

\* Variant: the clear() calls left out.
ClearKept(m) == m

\* Lines 98-100: clear() of a map.
Clear(m) == EmptyMap

\* Lines 89-121: deleteSessions(removeAll, sessionName).
DeleteSessions(removeAll, sessionName) ==
    /\ IF removeAll
         THEN /\ m_activeSessions' = Clear(m_activeSessions)
              /\ m_policyMap' = Clear(m_policyMap)
              /\ m_routeMap' = Clear(m_routeMap)
              /\ request' = [op |-> "deleteAllSessions", ret |-> TRUE]
         ELSE IF sessionName \in DOMAIN m_activeSessions
           THEN LET policyName == m_activeSessions[sessionName].policyName
                    routeName == m_activeSessions[sessionName].routeName
                IN  /\ m_activeSessions' = MapErase(m_activeSessions, sessionName)
                    /\ m_policyMap' = ErasePolicy(m_policyMap, policyName)
                    /\ m_routeMap' = EraseRoute(m_routeMap, routeName)
                    /\ request' = [op |-> "deleteSession", sessionName |-> sessionName, ret |-> TRUE]
           ELSE /\ UNCHANGED sessionMaps
                /\ request' = [op |-> "deleteSession", sessionName |-> sessionName, ret |-> FALSE]
    /\ UNCHANGED <<routerVars, helperVars, apiVars, utilVars>>

\* Lines 123-126.
DeleteSession(sessionName) == DeleteSessions(FALSE, sessionName)

\* deleteSessions with removeAll set.
DeleteAllSessions == DeleteSessions(TRUE, NoName)

SessionNext ==
    \/ \E sn \in SessionNames, pn \in PolicyNames, fn \in FilterNames, rn \in RouteNames,
          ls \in Lifespans, d \in Descriptions : CreateSession(sn, pn, fn, rn, ls, d)
    \/ GetSessionsList
    \/ \E sn \in SessionNames : GetSession(sn)
    \/ \E sn \in SessionNames : DoesSessionExist(sn)
    \/ \E sn \in SessionNames : DeleteSession(sn)
    \/ DeleteAllSessions

\* The session manager under any sequence of requests.
SessionSpec == Init /\ [][SessionNext]_vars

\* ===================================================================
\* Helper operators (builder/builders/opBuilderHelperMap.cpp)
\* ===================================================================

\* ------------------------------------------------------------------ strings

\* A string is the sequence of its bytes (0..255).  Ord gives the code of the
\* characters the inputs below are written with.
Ord == (" " :> 32) @@ ("+" :> 43) @@ ("-" :> 45) @@ ("0" :> 48) @@ ("1" :> 49) @@ ("2" :> 50) @@
       ("4" :> 52) @@ ("6" :> 54) @@ ("A" :> 65) @@ ("F" :> 70) @@ ("a" :> 97) @@ ("b" :> 98) @@
       ("f" :> 102) @@ ("g" :> 103) @@ ("x" :> 120)

Str(chars) == [i \in 1..Len(chars) |-> Ord[chars[i]]]

\* All strings of at most n characters over an alphabet.
StringsUpTo(alphabet, n) == UNION {[1..k -> alphabet] : k \in 0..n}

\* std::string::substr(pos, count), pos counted from 0.
Substr(s, pos, count) == SubSeq(s, pos + 1, IF pos + count > Len(s) THEN Len(s) ELSE pos + count)

\* ------------------------------------------------------------------- events

\* A json value carries its type; an object is a function from keys to values,
\* an array a sequence of values.  Absent is the empty optional of a getter.
JInt(i) == [t |-> "int", i |-> i]
JString(s) == [t |-> "string", s |-> s]
JArray(items) == [t |-> "array", items |-> items]
JObject(members) == [t |-> "object", members |-> members]

Put(members, key, value) == [k \in DOMAIN members \cup {key} |-> IF k = key THEN value ELSE members[k]]

\* A pointer path is the sequence of its segments.
RECURSIVE GetJson(_, _)
GetJson(j, path) ==
    IF path = <<>> THEN j
    ELSE IF j.t = "object" /\ Head(path) \in DOMAIN j.members
           THEN GetJson(j.members[Head(path)], Tail(path))
           ELSE Absent

Exists(j, path) == GetJson(j, path) # Absent

GetString(j, path) == IF GetJson(j, path).t = "string" THEN GetJson(j, path) ELSE Absent

GetInt(j, path) == IF GetJson(j, path).t = "int" THEN GetJson(j, path) ELSE Absent

\* set: the value is written at the path; a value on the way that is not an
\* object is overwritten by one.
RECURSIVE SetJson(_, _, _)
SetJson(j, path, value) ==
    IF path = <<>> THEN value
    ELSE LET members == IF j.t = "object" THEN j.members ELSE EmptyMap
             child == IF Head(path) \in DOMAIN members THEN members[Head(path)] ELSE Absent
         IN JObject(Put(members, Head(path), SetJson(child, Tail(path), value)))

\* What the document holds of a string handed to setString: the bytes given, or
\* the bytes before the first NUL when the string is taken as a C string.
RECURSIVE CutAtNul(_)
CutAtNul(s) == IF s = <<>> \/ Head(s) = 0 THEN <<>> ELSE <<Head(s)>> \o CutAtNul(Tail(s))

SetString(j, path, s, cstr) == SetJson(j, path, JString(IF cstr THEN CutAtNul(s) ELSE s))

SetInt(j, path, i) == SetJson(j, path, JInt(i))

\* erase: false, and nothing removed, when the path is the root or does not
\* resolve.
CanErase(j, path) == path # <<>> /\ Exists(j, path)

RECURSIVE Erase(_, _)
Erase(j, path) ==
    IF ~CanErase(j, path) THEN j
    ELSE IF Len(path) = 1 THEN JObject(MapErase(j.members, Head(path)))
    ELSE JObject(Put(j.members, Head(path), Erase(j.members[Head(path)], Tail(path))))

\* appendJson / appendString: the target becomes an array when it is not one,
\* and the value is pushed at its end.
AppendJson(j, path, value) ==
    LET old == GetJson(j, path)
    IN SetJson(j, path, JArray((IF old.t = "array" THEN old.items ELSE <<>>) \o <<value>>))

AppendString(j, path, s) == AppendJson(j, path, JString(s))

\* ------------------------------------------------------------------ results

makeSuccess(event) == [result |-> "Success", event |-> event]
makeFailure(event) == [result |-> "Failure", event |-> event]

Value(s) == [type |-> "VALUE", text |-> s]
\* A literal that is read as a name: an operator of int.calc, a trim type.
Name(s) == [type |-> "VALUE", name |-> s]
Reference(path) == [type |-> "REFERENCE", path |-> path]

\* ------------------------------------------------------------- array.append

\* Lines 970-996: the loop over the parameters, from the i-th on.
RECURSIVE AppendLoop(_, _, _, _)
AppendLoop(event, targetField, parameters, i) ==
    IF i > Len(parameters) THEN makeSuccess(event)
    ELSE IF parameters[i].type = "REFERENCE"
      THEN IF ~Exists(event, parameters[i].path)
             THEN makeFailure(event)
             ELSE AppendLoop(AppendJson(event, targetField, GetJson(event, parameters[i].path)),
                             targetField, parameters, i + 1)
      ELSE AppendLoop(AppendString(event, targetField, parameters[i].text),
                      targetField, parameters, i + 1)

\* Lines 947-998: construction throws without parameters.
opBuilderHelperAppend(event, targetField, parameters) ==
    IF parameters = <<>> THEN [result |-> "throw", event |-> event]
    ELSE AppendLoop(event, targetField, parameters, 1)

\* ------------------------------------------------------------- field.delete

\* Lines 1114-1145.
opBuilderHelperDeleteField(event, targetField) ==
    IF CanErase(event, targetField)
      THEN makeSuccess(Erase(event, targetField))
      ELSE makeFailure(event)

\* ------------------------------------------------------------- field.rename

\* Variant: the source is copied and left in place.
RenameFieldCopies(event, targetField, sourceField) ==
    IF ~Exists(event, sourceField) THEN makeFailure(event)
    ELSE makeSuccess(SetJson(event, targetField, GetJson(event, sourceField)))

\* Lines 1169-1191: copy the source to the target, then erase the source.
opBuilderHelperRenameField(event, targetField, sourceField) ==
    IF ~Exists(event, sourceField) THEN makeFailure(event)
    ELSE LET copied == SetJson(event, targetField, GetJson(event, sourceField))
         IN IF CanErase(copied, sourceField)
              THEN makeSuccess(Erase(copied, sourceField))
              ELSE makeFailure(copied)

\* ----------------------------------------------------------- string.fromHex

IsSpace(c) == c = 32 \/ c \in 9..13

\* The value of a hexadecimal digit, -1 for any other character.
HexDigitValue(c) ==
    IF c \in 48..57 THEN c - 48
    ELSE IF c \in 97..102 THEN c - 87
    ELSE IF c \in 65..70 THEN c - 55
    ELSE -1

RECURSIVE SkipSpace(_)
SkipSpace(s) == IF s # <<>> /\ IsSpace(Head(s)) THEN SkipSpace(Tail(s)) ELSE s

\* The number of hexadecimal digits s starts with.
RECURSIVE HexDigits(_)
HexDigits(s) == IF s # <<>> /\ HexDigitValue(Head(s)) >= 0 THEN 1 + HexDigits(Tail(s)) ELSE 0

RECURSIVE HexValue(_, _)
HexValue(s, acc) == IF s = <<>> THEN acc ELSE HexValue(Tail(s), 16 * acc + HexDigitValue(Head(s)))

\* strtol(byte.c_str(), &err, 16) of a string of at most two characters: white
\* space is skipped, a sign is taken, the digits are converted; rest is what
\* err points at, the whole string when no digit was converted.  (The prefix
\* 0x needs a third character to matter.)
Strtol16(byte) ==
    LET cstr == CutAtNul(byte)
        unspaced == SkipSpace(cstr)
        signed == unspaced # <<>> /\ Head(unspaced) \in {Ord["+"], Ord["-"]}
        digits == IF signed THEN Tail(unspaced) ELSE unspaced
        n == HexDigits(digits)
        magnitude == HexValue(SubSeq(digits, 1, n), 0)
    IN IF n = 0 THEN [value |-> 0, rest |-> cstr]
       ELSE [value |-> IF signed /\ Head(unspaced) = Ord["-"] THEN 0 - magnitude ELSE magnitude,
             rest |-> SubSeq(digits, n + 1, Len(digits))]

\* (char) of a long, as the byte it leaves.
ToChar(value) == value % 256

\* Lines 676-692: the loop from iHex on; strASCII is what has been decoded.
RECURSIVE FromHexaLoop(_, _, _)
FromHexaLoop(strHex, iHex, strASCII) ==
    IF iHex >= Len(strHex) THEN [ok |-> TRUE, strASCII |-> strASCII]
    ELSE LET conv == Strtol16(Substr(strHex, iHex, 2))
         IN IF conv.rest # <<>>
              THEN [ok |-> FALSE, strASCII |-> strASCII]
              ELSE FromHexaLoop(strHex, iHex + 2, Append(strASCII, ToChar(conv.value)))

\* Lines 654-697.  resize(lenHex / 2 + 1) leaves one NUL after the decoded
\* characters, and the whole of strASCII goes to setString.
opBuilderHelperStringFromHexa(event, targetField, sourceField, cstr) ==
    LET refStrHEX == GetString(event, sourceField)
        decoded == FromHexaLoop(refStrHEX.s, 0, <<>>)
    IN IF refStrHEX = Absent THEN makeFailure(event)
       ELSE IF Len(refStrHEX.s) % 2 # 0 THEN makeFailure(event)
       ELSE IF ~decoded.ok THEN makeFailure(event)
       ELSE makeSuccess(SetString(event, targetField, Append(decoded.strASCII, 0), cstr))

\* The two-hex-digits-per-character encoding of a string.
HexDigitChar(n) == IF n < 10 THEN 48 + n ELSE 87 + n

RECURSIVE HexEncode(_)
HexEncode(s) ==
    IF s = <<>> THEN <<>>
    ELSE <<HexDigitChar(Head(s) \div 16), HexDigitChar(Head(s) % 16)>> \o HexEncode(Tail(s))

\* ----------------------------------------------------------------- int.calc

\* numeric_limits<int>::max() and what a wider value becomes as an int.  The
\* int of the model is 8 bits wide, so that the 64-bit count of seconds of
\* time.epochNow, which reaches beyond it, stays an integer TLC can hold.
INT_MAX == 127

ToInt(value) == ((value + INT_MAX + 1) % (2 * INT_MAX + 2)) - INT_MAX - 1

IntOperators == {"sum", "sub", "mul", "div"}

RECURSIVE DecDigits(_)
DecDigits(s) == IF s # <<>> /\ Head(s) \in 48..57 THEN 1 + DecDigits(Tail(s)) ELSE 0

RECURSIVE DecValue(_, _)
DecValue(s, acc) == IF s = <<>> THEN acc ELSE DecValue(Tail(s), 10 * acc + Head(s) - 48)

\* std::stoi: white space, sign, decimal digits, anything after them ignored;
\* it throws when no digit is converted or the value is no int.
Stoi(s) ==
    LET unspaced == SkipSpace(CutAtNul(s))
        signed == unspaced # <<>> /\ Head(unspaced) \in {Ord["+"], Ord["-"]}
        digits == IF signed THEN Tail(unspaced) ELSE unspaced
        n == DecDigits(digits)
        magnitude == DecValue(SubSeq(digits, 1, n), 0)
        value == IF signed /\ Head(unspaced) = Ord["-"] THEN 0 - magnitude ELSE magnitude
    IN IF n = 0 \/ value > INT_MAX \/ value < 0 - INT_MAX - 1
         THEN [ok |-> FALSE, value |-> 0]
         ELSE [ok |-> TRUE, value |-> value]

\* l / r of two ints: the quotient is truncated towards zero.
Quotient(l, r) ==
    LET absl == IF l < 0 THEN 0 - l ELSE l
        absr == IF r < 0 THEN 0 - r ELSE r
    IN IF (l < 0) # (r < 0) THEN 0 - (absl \div absr) ELSE absl \div absr

\* Lines 228-259: transformFunction, the exact result of the operation; it is
\* an int when it lies within INT_MIN..INT_MAX.
transformFunction(op, l, r) ==
    CASE op = "sum" -> l + r
      [] op = "sub" -> l - r
      [] op = "mul" -> l * r
      [] op = "div" -> Quotient(l, r)

INT_MIN == 0 - INT_MAX - 1

\* An operation on two ints whose exact result is no int is undefined in C++
\* (l + r, l - r and l * r that overflow, INT_MIN / -1): a build either lets
\* the result wrap around or traps, as the division instruction of x86 does.
Overflows == {"wrap", "trap"}
IsInt(value) == value >= INT_MIN /\ value <= INT_MAX

\* Variant: a referenced divisor is used as it is found.
DivisorNotChecked(op, resolvedRValue) == FALSE

\* Line 294: a referenced operand of div that is 0.
DivisionByZero(op, resolvedRValue) == op = "div" /\ resolvedRValue = 0

\* Lines 184-313 behind opBuilderHelperIntCalc (861-880): strToOp and the
\* conversion of a literal operand throw at construction, a literal 0 under div
\* too; the division of transformFunction throws on a divisor of 0.
opBuilderHelperIntCalc(event, targetField, opName, rightParameter, overflow) ==
    LET lValue == GetInt(event, targetField)
        literal == Stoi(rightParameter.text)
        resolvedRValue == GetInt(event, rightParameter.path)
        thrown == [result |-> "throw", event |-> event]
        calc(r) == IF opName = "div" /\ r = 0 THEN thrown
                   ELSE LET exact == transformFunction(opName, lValue.i, r)
                        IN IF ~IsInt(exact) /\ overflow = "trap"
                             THEN [result |-> "abort", event |-> event]
                             ELSE makeSuccess(SetInt(event, targetField, ToInt(exact)))
    IN IF opName \notin IntOperators THEN thrown
       ELSE IF rightParameter.type = "VALUE"
         THEN IF ~literal.ok THEN thrown
              ELSE IF opName = "div" /\ literal.value = 0 THEN thrown
              ELSE IF lValue = Absent THEN makeFailure(event)
              ELSE calc(literal.value)
         ELSE IF lValue = Absent THEN makeFailure(event)
              ELSE IF resolvedRValue = Absent THEN makeFailure(event)
              ELSE IF DivisionByZero(opName, resolvedRValue.i) THEN makeFailure(event)
              ELSE calc(resolvedRValue.i)

\* ------------------------------------------------------------ time.epochNow

\* Variant: the count of seconds is written whatever it is.
ExceedsIntNever(sec) == FALSE

\* Line 1275: the count does not fit an int.
ExceedsInt(sec) == sec > INT_MAX

\* Lines 1269-1285: sec is the count of seconds the system clock gives, a
\* 64-bit integer; setInt takes an int.
opBuilderHelperEpochTimeFromSystem(event, targetField, sec) ==
    IF ExceedsInt(sec) THEN makeFailure(event)
    ELSE makeSuccess(SetInt(event, targetField, ToInt(sec)))

\* -------------------------------------------------------------- string.trim

\* std::string::npos; npos + 1 is 0.
npos == -1

\* find_first_not_of(c) / find_last_not_of(c): the position, from 0, of the
\* first / last character that is not c, npos when there is none.
FindFirstNotOf(s, c) ==
    IF \A i \in 1..Len(s) : s[i] = c THEN npos
    ELSE (CHOOSE i \in 1..Len(s) : s[i] # c /\ \A k \in 1..(i - 1) : s[k] = c) - 1

FindLastNotOf(s, c) ==
    IF \A i \in 1..Len(s) : s[i] = c THEN npos
    ELSE (CHOOSE i \in 1..Len(s) : s[i] # c /\ \A k \in (i + 1)..Len(s) : s[k] = c) - 1

\* erase(pos, count): count characters from pos on are removed, all of them to
\* the end when count is npos or reaches beyond it.
EraseChars(s, pos, count) ==
    IF count = npos \/ pos + count >= Len(s) THEN SubSeq(s, 1, pos)
    ELSE SubSeq(s, 1, pos) \o SubSeq(s, pos + count + 1, Len(s))

TrimTypes == {"begin", "end", "both"}

\* Variant: one character is removed, not the run.
TrimBeginOne(s, c) == IF s # <<>> /\ Head(s) = c THEN Tail(s) ELSE s

\* Lines 444-446.
TrimBegin(s, c) == EraseChars(s, 0, FindFirstNotOf(s, c))

\* Lines 448-450.
TrimEnd(s, c) == EraseChars(s, FindLastNotOf(s, c) + 1, npos)

\* Lines 385-470: construction throws for an unknown trim type or a trim char
\* that is not one character long.
opBuilderHelperStringTrim(event, targetField, trimType, trimChar, cstr) ==
    LET resolvedField == GetString(event, targetField)
        strToTrim == resolvedField.s
        c == trimChar[1]
        trimmed == CASE trimType = "begin" -> TrimBegin(strToTrim, c)
                     [] trimType = "end" -> TrimEnd(strToTrim, c)
                     [] trimType = "both" -> TrimEnd(TrimBegin(strToTrim, c), c)
    IN IF trimType \notin TrimTypes \/ Len(trimChar) # 1 THEN [result |-> "throw", event |-> event]
       ELSE IF resolvedField = Absent THEN makeFailure(event)
       ELSE makeSuccess(SetString(event, targetField, trimmed, cstr))

\* ----------------------------------------------------------- string.replace

\* std::string::find(sub, pos): the first position, from pos on, where sub
\* stands, npos when there is none.
Find(s, sub, pos) ==
    LET hits == {i \in pos..(Len(s) - Len(sub)) : SubSeq(s, i + 1, i + Len(sub)) = sub}
    IN IF hits = {} THEN npos ELSE CHOOSE i \in hits : \A k \in hits : i <= k

\* Variant: as many characters give way as the new substring has.
ReplaceCharsCountOfNew(s, pos, count, new) ==
    SubSeq(s, 1, pos) \o new \o SubSeq(s, pos + Len(new) + 1, Len(s))

\* replace(pos, count, new): count characters from pos on give way to new.
ReplaceChars(s, pos, count, new) == SubSeq(s, 1, pos) \o new \o SubSeq(s, pos + count + 1, Len(s))

\* Variant: the search goes on where the match was found.
AdvanceNot(start_pos, newSubstring) == start_pos

\* Line 842: start_pos += newSubstring.length().
Advance(start_pos, newSubstring) == start_pos + Len(newSubstring)

\* ---------------------------------------------------------------- pipeline

MaxOps == 2
MaxLen == 3

\* The record of an operator applied to the event: what it was built from, the
\* event it was given and what it returned ("throw": its construction threw).
Applied(op, targetField, parameters, r) ==
    [op |-> op, target |-> targetField, parameters |-> parameters, before |-> opEvent,
     result |-> r.result, n |-> applied.n + 1]

Document(members) == JObject(members)

Lit == Str(<<"a", "b">>)
Missing == <<"m">>

StructDocuments ==
    { Document(EmptyMap),
      Document([a |-> JInt(1)]),
      Document([a |-> JInt(1), b |-> JInt(2)]),
      Document([a |-> JInt(1), x |-> JInt(5)]),
      Document([a |-> JInt(1), x |-> JObject(EmptyMap)]),
      Document([x |-> JObject([y |-> JInt(7)])]),
      Document([a |-> JString(Lit), arr |-> JArray(<<JInt(1)>>)]) }

HexChars == {Ord["4"], Ord["g"]}
HexPairs == {Str(<<"4", "a">>), Str(<<"+", "f">>), Str(<<"-", "1">>), Str(<<"0", "x">>),
             Str(<<"f", " ">>), Str(<<" ", "F">>)}
AsciiChars == {0, 74, 97, 127}
AsciiStrings == StringsUpTo(AsciiChars, MaxLen - 1)

HexStrings ==
    StringsUpTo(HexChars, MaxLen) \cup HexPairs \cup {p \o q : p \in HexPairs, q \in HexPairs}
        \cup {HexEncode(s) : s \in AsciiStrings}

HexDocuments == {Document([h |-> JString(s), t |-> JString(Lit)]) : s \in HexStrings}

IntDocuments ==
    { Document([n |-> JInt(6), d |-> JInt(0)]),
      Document([n |-> JInt(6), d |-> JInt(2)]),
      Document([n |-> JInt(0 - 7), d |-> JInt(2)]),
      Document([n |-> JInt(6)]),
      Document([d |-> JInt(2)]),
      Document([n |-> JString(Lit), d |-> JInt(0)]) }

TrimChars == {Ord["x"], Ord["a"]}
TrimDocuments ==
    {Document([s |-> JString(str)]) : str \in StringsUpTo(TrimChars, MaxLen)}
        \cup {Document([s |-> JInt(1)])}

Documents == StructDocuments \cup HexDocuments \cup IntDocuments \cup TrimDocuments

\* The worker hands the pipeline an event, the one event of a behaviour.
ReceiveEvent(documents) ==
    /\ opEvent = Absent
    /\ opEvent' \in documents
    /\ applied' = NoneApplied
    /\ repl' = NoReplace
    /\ UNCHANGED <<routerVars, sessionVars, apiVars, utilVars>>

\* An operator of the pipeline is built and run on the event.
Apply(op, targetField, parameters, r) ==
    /\ opEvent # Absent /\ repl.pc \in {"idle", "done"} /\ applied.n < MaxOps
    /\ opEvent' = r.event
    /\ applied' = Applied(op, targetField, parameters, r)
    /\ UNCHANGED <<repl, routerVars, sessionVars, apiVars, utilVars>>

StructPaths == {<<"a">>, <<"b">>, <<"x">>, <<"x", "y">>}

AppendParameters ==
    { <<>>, <<Value(Lit)>>, <<Reference(<<"a">>)>>, <<Reference(Missing)>>,
      <<Value(Lit), Reference(Missing)>>, <<Reference(<<"a">>), Reference(Missing)>>,
      <<Value(Lit), Reference(<<"a">>)>> }

ArrayAppend ==
    \E targetField \in {<<"arr">>}, parameters \in AppendParameters :
        Apply("array.append", targetField, parameters,
              opBuilderHelperAppend(opEvent, targetField, parameters))

FieldDelete ==
    \E targetField \in {<<"a">>, Missing, <<"x", "y">>} :
        Apply("field.delete", targetField, <<>>, opBuilderHelperDeleteField(opEvent, targetField))

FieldRename ==
    \E targetField \in StructPaths, sourceField \in StructPaths :
        Apply("field.rename", targetField, <<Reference(sourceField)>>,
              opBuilderHelperRenameField(opEvent, targetField, sourceField))

StringFromHex ==
    \E sourceField \in {<<"h">>, <<"a">>}, cstr \in BOOLEAN :
        Apply("string.fromHex", <<"t">>, <<Reference(sourceField)>>,
              opBuilderHelperStringFromHexa(opEvent, <<"t">>, sourceField, cstr))

IntLiterals == {Str(<<"0">>), Str(<<"-", "2">>), Str(<<"x">>)}

IntCalc ==
    \E opName \in {"sum", "mul", "div", "mod"},
       rightParameter \in {Value(s) : s \in IntLiterals} \cup {Reference(<<"d">>)},
       overflow \in Overflows :
        Apply("int.calc", <<"n">>, <<Name(opName), rightParameter>>,
              opBuilderHelperIntCalc(opEvent, <<"n">>, opName, rightParameter, overflow))

\* What the system clock can give: a count of seconds since the epoch, which
\* the system does not let be negative.
Clock == {0, 100, INT_MAX, INT_MAX + 1, 2 * INT_MAX + 2, 2 * INT_MAX + 46}

TimeEpochNow ==
    \E sec \in Clock :
        Apply("time.epochNow", <<"t">>, <<[type |-> "CLOCK", sec |-> sec]>>,
              opBuilderHelperEpochTimeFromSystem(opEvent, <<"t">>, sec))

StringTrim ==
    \E targetField \in {<<"s">>}, trimType \in TrimTypes \cup {"middle"},
       trimChar \in {Str(<<"x">>), Str(<<>>), Str(<<"x", "x">>)}, cstr \in BOOLEAN :
        Apply("string.trim", targetField, <<Name(trimType), Value(trimChar)>>,
              opBuilderHelperStringTrim(opEvent, targetField, trimType, trimChar, cstr))

HelperNext ==
    \/ ReceiveEvent(Documents)
    \/ ArrayAppend
    \/ FieldDelete
    \/ FieldRename
    \/ StringFromHex
    \/ IntCalc
    \/ TimeEpochNow
    \/ StringTrim

\* A pipeline of helper operators run on the events it is handed.
HelperSpec == Init /\ [][HelperNext]_vars

\* ------------------------------------------------- int.calc, every operand

\* Events whose target and operand are ints from the ends and the middle of
\* the range.
CalcValues == {INT_MIN, 0 - 1, 0, 2, INT_MAX}
CalcDocuments ==
    { Document([n |-> JInt(l), d |-> JInt(r)]) : l \in CalcValues, r \in CalcValues }
CalcLiterals == {Str(<<"-", "1">>), Str(<<"2">>)}

IntCalcAll ==
    \E opName \in IntOperators,
       rightParameter \in {Value(s) : s \in CalcLiterals} \cup {Reference(<<"d">>)},
       overflow \in Overflows :
        Apply("int.calc", <<"n">>, <<Name(opName), rightParameter>>,
              opBuilderHelperIntCalc(opEvent, <<"n">>, opName, rightParameter, overflow))

CalcNext ==
    \/ ReceiveEvent(CalcDocuments)
    \/ IntCalcAll

\* int.calc run, once or more, on events with ints of every size.
CalcSpec == Init /\ [][CalcNext]_vars

\* ------------------------------------------- string.replace, step by step

ReplaceAlphabet == {Ord["a"], Ord["b"]}

ReplaceDocuments ==
    { Document([s |-> JString(str), o |-> JString(old)]) :
          str \in StringsUpTo(ReplaceAlphabet, MaxLen), old \in {<<>>, Str(<<"a">>)} }
      \cup { Document([s |-> JInt(1)]), Document([s |-> JString(Lit)]) }

OldParameters ==
    {Value(<<>>), Value(Str(<<"a">>)), Value(Str(<<"a", "a">>)), Value(Lit), Reference(<<"o">>),
     Reference(Missing)}
NewParameters == {Value(<<>>), Value(Str(<<"a">>)), Value(Str(<<"b", "a">>)), Reference(<<"o">>)}

\* A parameter of string.replace is resolved: the literal, or the string the
\* reference leads to.
ResolveSubstr(event, parameter) ==
    IF parameter.type = "REFERENCE" THEN GetString(event, parameter.path) ELSE JString(parameter.text)

\* Lines 760-838: construction throws for an empty first parameter; the lambda
\* returns Failure for a target, or a referenced parameter, that is no string or
\* an empty one; else its locals are set for the loop.
ReplaceEnter(targetField, paramOldSubstr, paramNewSubstr) ==
    /\ opEvent # Absent /\ repl.pc \in {"idle", "done"} /\ applied.n = 0
    /\ LET resolvedField == GetString(opEvent, targetField)
           old == ResolveSubstr(opEvent, paramOldSubstr)
           new == ResolveSubstr(opEvent, paramNewSubstr)
           NoString(f) == f = Absent \/ f.s = <<>>
           parameters == <<paramOldSubstr, paramNewSubstr>>
           returns(result) ==
               /\ applied' = Applied("string.replace", targetField, parameters,
                                     [result |-> result, event |-> opEvent])
               /\ repl' = [NoReplace EXCEPT !.pc = "done"]
       IN IF paramOldSubstr.type = "VALUE" /\ paramOldSubstr.text = <<>> THEN returns("throw")
          ELSE IF NoString(resolvedField) THEN returns("Failure")
          ELSE IF paramOldSubstr.type = "REFERENCE" /\ NoString(old) THEN returns("Failure")
          ELSE IF paramNewSubstr.type = "REFERENCE" /\ NoString(new) THEN returns("Failure")
          ELSE /\ repl' = [pc |-> "find", targetField |-> targetField, parameters |-> parameters,
                           newString |-> resolvedField.s, oldSubstring |-> old.s,
                           newSubstring |-> new.s, start_pos |-> 0]
               /\ UNCHANGED applied
    /\ UNCHANGED <<opEvent, routerVars, sessionVars, apiVars, utilVars>>

\* Lines 839-840: the condition of the while loop.
ReplaceFind ==
    /\ repl.pc = "find"
    /\ LET found == Find(repl.newString, repl.oldSubstring, repl.start_pos)
       IN repl' = [repl EXCEPT !.start_pos = found,
                               !.pc = IF found = npos THEN "set" ELSE "replace"]
    /\ UNCHANGED <<opEvent, applied, routerVars, sessionVars, apiVars, utilVars>>

\* Lines 841-842: the body of the loop.  No string of the model outgrows
\* MaxLen * MaxLen characters.
ReplaceBody ==
    /\ repl.pc = "replace"
    /\ Len(repl.newString) - Len(repl.oldSubstring) + Len(repl.newSubstring) <= MaxLen * MaxLen
    /\ repl' = [repl EXCEPT !.newString = ReplaceChars(repl.newString, repl.start_pos,
                                                       Len(repl.oldSubstring), repl.newSubstring),
                            !.start_pos = Advance(repl.start_pos, repl.newSubstring),
                            !.pc = "find"]
    /\ UNCHANGED <<opEvent, applied, routerVars, sessionVars, apiVars, utilVars>>

\* Lines 844-846: the string is written back and the operator succeeds.
ReplaceSet ==
    /\ repl.pc = "set"
    /\ \E cstr \in BOOLEAN :
          opEvent' = SetString(opEvent, repl.targetField, repl.newString, cstr)
    /\ applied' = Applied("string.replace", repl.targetField, repl.parameters,
                          [result |-> "Success"])
    /\ repl' = [repl EXCEPT !.pc = "done"]
    /\ UNCHANGED <<routerVars, sessionVars, apiVars, utilVars>>

ReplaceLoop == ReplaceFind \/ ReplaceBody \/ ReplaceSet

ReplaceNext ==
    \/ ReceiveEvent(ReplaceDocuments)
    \/ \E paramOldSubstr \in OldParameters, paramNewSubstr \in NewParameters :
          ReplaceEnter(<<"s">>, paramOldSubstr, paramNewSubstr)
    \/ ReplaceFind
    \/ ReplaceBody
    \/ ReplaceSet

\* string.replace on the events it is handed; the worker, once inside the
\* lambda, goes on running it.
ReplaceSpec == Init /\ [][ReplaceNext]_vars /\ WF_vars(ReplaceLoop)

\* ===================================================================
\* Administrative API (router.cpp, lines 247-407)
\* ===================================================================

\* The params of a request: a json object, here the function from the names
\* of the fields it holds to their values.
ParamValue == [name |-> "A", priority |-> 1, target |-> "envA", event |-> "e1"]

Params(action, fields) ==
    [f \in {"action"} \cup fields |-> IF f = "action" THEN action ELSE ParamValue[f]]

\* An event string parseOssecEvent throws on.
UnparsableEvent == "bad"

ApiParams ==
    {EmptyMap, Params("get", {}), Params("bogus", {"name"}),
     [Params("enqueue_event", {"event"}) EXCEPT !.event = UnparsableEvent],
     [Params("set", {"name", "priority", "target"}) EXCEPT !.target = "envB"]}
        \cup {Params("set", fields) : fields \in SUBSET {"name", "priority", "target"}}
        \cup {Params("delete", fields) : fields \in SUBSET {"name"}}
        \cup {Params("change_priority", fields) : fields \in SUBSET {"name", "priority"}}
        \cup {Params("enqueue_event", fields) : fields \in SUBSET {"event"}}

\* What a handler does with the params: it answers with a message, or it
\* calls the router and answers when the call has returned.
Message(parts) == [kind |-> "message", message |-> parts]
Call(op, name, envName, priority, event) ==
    [kind |-> "call", op |-> op, name |-> name, env |-> envName, priority |-> priority,
     event |-> event]

\* getString / getInt of a field of the params.
Has(params, field) == field \in DOMAIN params

\* Lines 290-320.
apiSetRoute(params) ==
    IF ~Has(params, "name") THEN Message(<<"Error: Error: Missing \"name\" parameter">>)
    ELSE IF ~Has(params, "priority") THEN Message(<<"Error: Error: Missing \"priority\" parameter">>)
    ELSE IF ~Has(params, "target") THEN Message(<<"Error: Error: Missing \"target\" parameter">>)
    ELSE Call("addRoute", params.name, params.target, params.priority, NoEvent)

\* Lines 322-326.
apiGetRoutes(params) == Call("getRouteTable", NoName, NoEnv, 0, NoEvent)

\* Lines 328-349.
apiDeleteRoute(params) ==
    IF ~Has(params, "name") THEN Message(<<"Error: Error: Missing \"priority\" parameter">>)
    ELSE Call("removeRoute", params.name, NoEnv, 0, NoEvent)

\* Lines 351-379.
apiChangeRoutePriority(params) ==
    IF ~Has(params, "name") THEN Message(<<"Error: Error: Missing \"priority\" parameter">>)
    ELSE IF ~Has(params, "priority") THEN Message(<<"Missing \"priority\" parameter">>)
    ELSE Call("changeRoutePriority", params.name, NoEnv, params.priority, NoEvent)

\* Lines 381-407: the exception of parseOssecEvent is answered with its text.
apiEnqueueEvent(params) ==
    IF ~Has(params, "event") THEN Message(<<"Error: Missing \"event\" parameter">>)
    ELSE IF params.event = UnparsableEvent THEN Message(<<"Error: ", "parse error", " ">>)
    ELSE Call("enqueueEvent", NoName, NoEnv, 0, params.event)

\* Lines 247-284.
apiCallbacks(params) ==
    IF ~Has(params, "action") THEN Message(<<"Missing \"action\" parameter">>)
    ELSE IF params.action = "set" THEN apiSetRoute(params)
    ELSE IF params.action = "get" THEN apiGetRoutes(params)
    ELSE IF params.action = "delete" THEN apiDeleteRoute(params)
    ELSE IF params.action = "change_priority" THEN apiChangeRoutePriority(params)
    ELSE IF params.action = "enqueue_event" THEN apiEnqueueEvent(params)
    ELSE Message(<<"Invalid action '", params.action, "'">>)

\* The message a handler composes from the value its call returned; the
\* message of an error is the name of the error here.
ResponseMessage(params, value) ==
    CASE params.action = "set" ->
             IF value = "ok" THEN <<"Route '", params.name, "' added">> ELSE <<"Error: ", value>>
      [] params.action = "get" -> <<"Ok">>
      [] params.action = "delete" ->
             IF value = "ok" THEN <<"Route '", params.name, "' deleted">> ELSE <<"Error: ", value>>
      [] params.action = "change_priority" ->
             IF value = "ok"
               THEN <<"Route '", params.name, "' priority changed to '", ToString(params.priority), "'">>
               ELSE <<value>>
      [] params.action = "enqueue_event" -> IF value = "ok" THEN <<"Ok">> ELSE <<value>>

\* A request arrives and its handler runs up to its answer or up to the call
\* it makes.
ApiRequest(c, params) ==
    /\ alive /\ pc[c] \in {"idle", "done"} /\ api[c].st # "called" /\ calls < MaxCalls
    /\ LET handled == apiCallbacks(params)
       IN IF handled.kind = "message"
            THEN /\ api' = [api EXCEPT ![c] = [st |-> "responded", params |-> params,
                                               response |-> handled.message]]
                 /\ UNCHANGED routerVars
            ELSE /\ InvokeCall(c, handled.op, handled.name, handled.env, handled.priority, handled.event)
                 /\ api' = [api EXCEPT ![c] = [st |-> "called", params |-> params,
                                               response |-> <<>>]]
    /\ UNCHANGED <<sessionVars, helperVars, utilVars>>

\* The call has returned and the handler answers.
ApiRespond(c) ==
    /\ alive /\ pc[c] = "done" /\ api[c].st = "called"
    /\ api' = [api EXCEPT ![c] = [st |-> "responded", params |-> api[c].params,
                                  response |-> ResponseMessage(api[c].params, ret[c])]]
    /\ UNCHANGED <<routerVars, sessionVars, helperVars, utilVars>>

ApiStep(c) ==
    \/ \E params \in ApiParams : ApiRequest(c, params)
    \/ ApiRespond(c)
    \/ AddRouteBegin(c)
    \/ AddRouteLink(c)
    \/ AddRouteRollback(c)
    \/ RemoveRouteLocked(c)
    \/ RemoveRouteDeleteEnv(c)
    \/ ChangeRoutePriorityLocked(c)
    \/ GetRouteTableCall(c)
    \/ DumpRead(c)
    \/ DumpStoreOk(c)
    \/ DumpStoreFail(c)
    \/ EnqueueCheck(c)
    \/ EnqueueOffer(c)

ApiNext ==
    \/ \E c \in Callers : ApiStep(c)
    \/ RunStart

\* The administrative API served to concurrent callers, the router started
\* or not.
ApiSpec == Init /\ [][ApiNext]_vars

\* ===================================================================
\* Logger (shared_modules/utils/loggerHelper.h)
\* ===================================================================

\* enum LOG_LEVEL.
LogLevels == {"INFO", "WARNING", "DEBUG", "DEBUG_VERBOSE", "ERROR"}

\* The values of a full_log_fnc_t: the empty one, a function that returns
\* and a function that throws.
NullFunction == "null"
LogFunctions == {"write", "thrower"}
Throws(f) == f = "thrower"

\* unordered_map::emplace: the entry of a key the map holds already stays.
Emplace(map, key, value) == MapInsert(map, key, value)

\* One 'if (f) m_logFunctions.emplace(level, f)' of assignLogFunction.
AssignOne(map, level, f) == IF f # NullFunction THEN Emplace(map, level, f) ELSE map

\* Lines 58-84.
assignLogFunction(map, info, warning, debug, debugVerbose, error) ==
    AssignOne(AssignOne(AssignOne(AssignOne(AssignOne(map,
        "INFO", info),
        "WARNING", warning),
        "DEBUG", debug),
        "DEBUG_VERBOSE", debugVerbose),
        "ERROR", error)

\* The call of a log function: the C strings of the tag and of the message,
\* the three fields of the source location.
LogInvocation(f, tag, msg, sourceFile) ==
    [fn |-> f, tag |-> CutAtNul(tag), file |-> sourceFile[1], line |-> sourceFile[2],
     func |-> sourceFile[3], msg |-> CutAtNul(msg)]

\* 'catch (...) {}' of the method of a level: a variant has none in debug.
CatchesAllButDebug(level) == level # "DEBUG"

Catches(level) == TRUE

\* Lines 92-185, the five methods: m_logFunctions.at(level) throws
\* std::out_of_range when the level has no function; the function is called
\* when it is not empty; whatever is thrown is caught and dropped.
Logger(map, level, tag, msg, sourceFile) ==
    LET thrown == IF level \notin DOMAIN map THEN "out_of_range"
                  ELSE IF map[level] # NullFunction /\ Throws(map[level]) THEN "exception"
                  ELSE "none"
        invoked == IF level \in DOMAIN map /\ map[level] # NullFunction
                     THEN <<LogInvocation(map[level], tag, msg, sourceFile)>>
                     ELSE <<>>
    IN [invoked |-> invoked,
        outcome |-> IF thrown # "none" /\ ~Catches(level) THEN "raised" ELSE "returned"]

\* The tag, the messages (one with a NUL in it) and the source locations of the calls.
Tags == {<<97>>}
Messages == {<<97, 98>>, <<97, 0, 98>>}
SourceFiles == {<<"a.cpp", 1, "f">>, <<"b.cpp", 2, "g">>}

\* assignLogFunction is called.
AssignLogFunction ==
    /\ \E info, warning, debug, debugVerbose, error \in LogFunctions \cup {NullFunction} :
          m_logFunctions' = assignLogFunction(m_logFunctions, info, warning, debug, debugVerbose, error)
    /\ UNCHANGED <<logged, parserVars, routerVars, sessionVars, helperVars, apiVars>>

\* Logger::info, warning, debug, debugVerbose or error is called.
LogCall ==
    /\ \E level \in LogLevels, tag \in Tags, msg \in Messages, sourceFile \in SourceFiles :
          LET r == Logger(m_logFunctions, level, tag, msg, sourceFile)
          IN logged' = [level |-> level, tag |-> tag, msg |-> msg, sourceFile |-> sourceFile,
                        invoked |-> r.invoked, outcome |-> r.outcome, turn |-> 1 - logged.turn]
    /\ UNCHANGED <<m_logFunctions, parserVars, routerVars, sessionVars, helperVars, apiVars>>

LoggerNext == AssignLogFunction \/ LogCall

\* Log functions registered and log calls made in any order.
LoggerSpec == Init /\ [][LoggerNext]_vars

\* ===================================================================
\* File-path parser (tests: engine/test/source/hlp/file_test.cpp)
\* ===================================================================

\* A path is the sequence of its characters.
PathSeparators == {"/", "\\"}
Letters ==
    {"a", "b", "c", "d", "e", "f", "g", "h", "i", "j", "k", "l", "m", "n", "o", "p", "q", "r", "s", "t", "u", "v", "w", "x", "y", "z",
     "A", "B", "C", "D", "E", "F", "G", "H", "I", "J", "K", "L", "M", "N", "O", "P", "Q", "R", "S", "T", "U", "V", "W", "X", "Y", "Z"}

\* std::string::find_last_of, positions counted from 0.
FindLastOf(s, chars) ==
    LET hits == {i \in 0..(Len(s) - 1) : s[i + 1] \in chars}
    IN IF hits = {} THEN npos ELSE CHOOSE i \in hits : \A k \in hits : k <= i

\* The name: what follows the last separator, the whole text without one.
FileName(text) ==
    LET sep == FindLastOf(text, PathSeparators)
    IN IF sep = npos THEN text ELSE Substr(text, sep + 1, Len(text))

\* The path: what precedes the last separator; the whole text without one
\* and for the root "/".
FilePath(text) ==
    LET sep == FindLastOf(text, PathSeparators)
    IN IF sep = npos \/ text = <<"/">> THEN text ELSE Substr(text, 0, sep)

\* A variant keeps the dot in the extension.
FileExtWithDot(name) ==
    LET dot == FindLastOf(name, {"."})
    IN IF dot = npos THEN <<>> ELSE Substr(name, dot, Len(name))

\* The extension: what follows the last dot of the name.
FileExt(name) ==
    LET dot == FindLastOf(name, {"."})
    IN IF dot = npos THEN <<>> ELSE Substr(name, dot + 1, Len(name))

HasDriveLetter(text) == Len(text) >= 2 /\ text[1] \in Letters /\ text[2] = ":"

\* A parse with the end token "", the end of the input: the position reached
\* and the object written under the target field.
FilePathParse(text) ==
    [index |-> Len(text),
     result |-> LET fields == [path |-> FilePath(text), name |-> FileName(text),
                               ext |-> FileExt(FileName(text))]
                IN IF HasDriveLetter(text) THEN fields @@ ("drive_letter" :> <<text[1]>>)
                   ELSE fields]

\* The build of the parser.
getFilePathParser(endTokens, options) ==
    IF endTokens = <<>> \/ options # <<>> THEN "FAILURE" ELSE "SUCCESS"

\* The cases of the suite FileBuild: lines 8-12.
FileBuild ==
    {[endTokens |-> <<>>, options |-> <<>>, expected |-> "FAILURE"],
     [endTokens |-> <<"">>, options |-> <<>>, expected |-> "SUCCESS"],
     [endTokens |-> <<"">>, options |-> <<"unexpected">>, expected |-> "FAILURE"]}

\* The cases of the suite FileParse: lines 14-72.
FileParse ==
    {[text |-> <<"/", "u", "s", "e", "r", "/", "l", "o", "g", "i", "n", ".", "p", "h", "p">>,
      index |-> 15,
      expected |-> [path |-> <<"/", "u", "s", "e", "r">>,
                    name |-> <<"l", "o", "g", "i", "n", ".", "p", "h", "p">>,
                    ext |-> <<"p", "h", "p">>]],
     [text |-> <<".", ".", "\\", "W", "i", "n", "d", "o", "w", "s", "\\", ".", ".", "\\", "U", "s", "e", "r", "s", "\\", "\"", "A", "d", "m", "i", "n", "i", "s", "t", "r", "a", "t", "o", "r", "\\", "r", "o", "o", "t", "k", "i", "t", ".", "e", "x", "e">>,
      index |-> 46,
      expected |-> [path |-> <<".", ".", "\\", "W", "i", "n", "d", "o", "w", "s", "\\", ".", ".", "\\", "U", "s", "e", "r", "s", "\\", "\"", "A", "d", "m", "i", "n", "i", "s", "t", "r", "a", "t", "o", "r">>,
                    name |-> <<"r", "o", "o", "t", "k", "i", "t", ".", "e", "x", "e">>,
                    ext |-> <<"e", "x", "e">>]],
     [text |-> <<"/", "h", "o", "m", "e", "/", "u", "s", "e", "r", "/", ".", "r", "o", "o", "t", "k", "i", "t", "/", ".", "f", "i", "l", "e", ".", "s", "h">>,
      index |-> 28,
      expected |-> [path |-> <<"/", "h", "o", "m", "e", "/", "u", "s", "e", "r", "/", ".", "r", "o", "o", "t", "k", "i", "t">>,
                    name |-> <<".", "f", "i", "l", "e", ".", "s", "h">>,
                    ext |-> <<"s", "h">>]],
     [text |-> <<"C", ":", "\\", "W", "i", "n", "d", "o", "w", "s", "\\", "S", "y", "s", "t", "e", "m", "3", "2", "\\", "v", "i", "r", "u", "s", ".", "e", "x", "e">>,
      index |-> 29,
      expected |-> [path |-> <<"C", ":", "\\", "W", "i", "n", "d", "o", "w", "s", "\\", "S", "y", "s", "t", "e", "m", "3", "2">>,
                    name |-> <<"v", "i", "r", "u", "s", ".", "e", "x", "e">>,
                    ext |-> <<"e", "x", "e">>,
                    drive_letter |-> <<"C">>]],
     [text |-> <<".", ".", "/", "h", "o", "m", "e", "/", ".", ".", "u", "s", "e", "r", "/", ".", "r", "o", "o", "t", "k", "i", "t", "/", ".", ".", "f", "i", "l", "e", ".", "s", "h">>,
      index |-> 33,
      expected |-> [path |-> <<".", ".", "/", "h", "o", "m", "e", "/", ".", ".", "u", "s", "e", "r", "/", ".", "r", "o", "o", "t", "k", "i", "t">>,
                    name |-> <<".", ".", "f", "i", "l", "e", ".", "s", "h">>,
                    ext |-> <<"s", "h">>]],
     [text |-> <<"r", "e", "l", "a", "t", "i", "v", "e", ".", "t", "e", "s", "t", ".", "l", "o", "g">>,
      index |-> 17,
      expected |-> [path |-> <<"r", "e", "l", "a", "t", "i", "v", "e", ".", "t", "e", "s", "t", ".", "l", "o", "g">>,
                    name |-> <<"r", "e", "l", "a", "t", "i", "v", "e", ".", "t", "e", "s", "t", ".", "l", "o", "g">>,
                    ext |-> <<"l", "o", "g">>]],
     [text |-> <<".", "h", "i", "d", "d", "e", "n", ".", "l", "o", "g">>,
      index |-> 11,
      expected |-> [path |-> <<".", "h", "i", "d", "d", "e", "n", ".", "l", "o", "g">>,
                    name |-> <<".", "h", "i", "d", "d", "e", "n", ".", "l", "o", "g">>,
                    ext |-> <<"l", "o", "g">>]],
     [text |-> <<"/">>,
      index |-> 1,
      expected |-> [path |-> <<"/">>,
                    name |-> <<>>,
                    ext |-> <<>>]]}

PathAlphabet == {"/", "\\", ".", ":", "C"}
Paths == StringsUpTo(PathAlphabet, MaxLen) \cup {t.text : t \in FileParse}

\* A parser is built.
BuildFileParser ==
    /\ \E endTokens \in {<<>>, <<"">>}, options \in {<<>>, <<"unexpected">>} :
          parsed' = [st |-> IF getFilePathParser(endTokens, options) = "SUCCESS"
                              THEN "built" ELSE "failed",
                     endTokens |-> endTokens, options |-> options,
                     text |-> <<>>, index |-> 0, result |-> EmptyMap]
    /\ UNCHANGED <<loggerVars, routerVars, sessionVars, helperVars, apiVars>>

\* The parser built last parses a text.
ParseFilePath ==
    /\ parsed.st \in {"built", "parsed"}
    /\ \E text \in Paths :
          parsed' = [parsed EXCEPT !.st = "parsed", !.text = text,
                                   !.index = FilePathParse(text).index,
                                   !.result = FilePathParse(text).result]
    /\ UNCHANGED <<loggerVars, routerVars, sessionVars, helperVars, apiVars>>

ParserNext == BuildFileParser \/ ParseFilePath

\* Parsers built and paths parsed in any order.
ParserSpec == Init /\ [][ParserNext]_vars

\* ===================================================================
\* Properties
\* ===================================================================

MutatingOps == {"addRoute", "removeRoute", "changeRoutePriority"}

Returned(c, op) == pc[c] = "done" /\ call[c].op = op

\* The (name, priority, target) rows the two indices stand for.
RowsOf(np, pr) ==
    {[name |-> n, priority |-> np[n], target |-> pr[np[n]][1].target] : n \in DOMAIN np}

\* t lists every route exactly once, in strictly ascending priority order.
IsSortedListing(t, np, pr) ==
    /\ Len(t) = Cardinality(DOMAIN np)
    /\ {t[k] : k \in DOMAIN t} = RowsOf(np, pr)
    /\ \A j, k \in DOMAIN t : j < k => t[j].priority < t[k].priority

\* The priorities of the routes whose instance i accepts the event.
Accepting(pr, i, event) == {k \in DOMAIN pr : Accept(pr[k][i], event)}

\* C1: a worker forwards the event it dequeued at most once, not at all when no
\* route of the table accepts it, and otherwise to the target of the accepting
\* route with the lowest priority in the table it walked under the shared lock.
\* The call of forwardEvent is the step that leaves position "forward".
C1_ForwardOnceToLowestPriority ==
    [][\A i \in Workers :
        /\ (worker[i].st = "have" /\ worker'[i] # worker[i]) =>
              LET acc == Accepting(m_priorityRoute, i, worker[i].ev)
              IN  IF acc = {}
                    THEN worker'[i] = IdleWorker("loop")
                    ELSE /\ worker'[i].st = "forward"
                         /\ worker'[i].ev = worker[i].ev
                         /\ \E k \in acc :
                               /\ \A j \in acc : k <= j
                               /\ worker'[i].tgt = m_priorityRoute[k][i].target
        /\ (worker[i].st = "forward" /\ worker'[i] # worker[i]) =>
              worker'[i] = IdleWorker("loop")
        /\ (worker'[i].st = "forward" /\ worker'[i] # worker[i]) =>
              worker[i].st = "have"
        /\ worker'[i].ev # worker[i].ev =>
              worker'[i].ev = NoEvent \/ (worker[i].st = "wait" /\ queue # <<>> /\ worker'[i].ev = Head(queue))
      ]_vars

\* A worker about to forward to the lower of two routes that accept its event.
C1_Witness ==
    \E i \in Workers :
        /\ worker[i].st = "forward"
        /\ Cardinality(Accepting(m_priorityRoute, i, worker[i].ev)) = 2
        /\ \E k \in DOMAIN m_priorityRoute :
              /\ m_priorityRoute[k][i].target = worker[i].tgt
              /\ \A j \in DOMAIN m_priorityRoute : k <= j

\* C2: the two indices of the route table agree one-to-one: each name's
\* priority is a key of the priority index, each key is the priority of exactly
\* one name, and each group holds NumThreads instances that carry the key as
\* their priority (and the predicate built for that name).
C2_IndicesAgree ==
    /\ \A n \in DOMAIN m_namePriority : m_namePriority[n] \in DOMAIN m_priorityRoute
    /\ \A p \in DOMAIN m_priorityRoute :
          /\ Cardinality({n \in DOMAIN m_namePriority : m_namePriority[n] = p}) = 1
          /\ DOMAIN m_priorityRoute[p] = 1..NumThreads
          /\ \A i \in 1..NumThreads :
                /\ m_priorityRoute[p][i].priority = p
                /\ m_priorityRoute[p][i].filter \in DOMAIN m_namePriority
                /\ m_namePriority[m_priorityRoute[p][i].filter] = p
    /\ \A n1, n2 \in DOMAIN m_namePriority :
          m_namePriority[n1] = m_namePriority[n2] => n1 = n2

\* Two routes in the table, one of them just moved to another priority.
C2_Witness ==
    /\ Cardinality(DOMAIN m_namePriority) = 2
    /\ \E c \in Callers : Returned(c, "changeRoutePriority") /\ ret[c] = "ok" /\ fx[c].wrote

\* C3: addRoute answers AlreadyExists whenever the name is in the table,
\* whatever the priority; PriorityTaken when the name is new and the priority is
\* held; BuildError when the predicate cannot be built.
C3_AddRouteErrorKinds ==
    [][\A c \in Callers :
        /\ (pc[c] = "called" /\ call[c].op = "addRoute" /\ pc'[c] # "called"
              /\ BuildRouteThrows(call[c].name)) => ret'[c] = "BuildError"
        /\ (pc[c] = "add_link" /\ pc'[c] # "add_link") =>
              /\ call[c].name \in DOMAIN m_namePriority =>
                    pc'[c] = "add_rollback" /\ err'[c] = "AlreadyExists"
              /\ (call[c].name \notin DOMAIN m_namePriority
                    /\ call[c].priority \in DOMAIN m_priorityRoute) =>
                    pc'[c] = "add_rollback" /\ err'[c] = "PriorityTaken"
        /\ (pc[c] = "add_rollback" /\ pc'[c] = "done") => ret'[c] = err[c]
      ]_vars

C8_RemoveRoute ==
    [][\A c \in Callers :
        /\ (pc[c] = "called" /\ call[c].op = "removeRoute" /\ pc'[c] # "called") =>
              LET n == call[c].name
              IN  IF n \notin DOMAIN m_namePriority
                    THEN /\ ret'[c] = "NotFound" /\ UNCHANGED tableVars
                         /\ fx'[c].delCalls = <<>>
                    ELSE LET old == m_namePriority[n] IN
                         /\ pc'[c] = "dump_read"
                         /\ DOMAIN m_namePriority' = DOMAIN m_namePriority \ {n}
                         /\ DOMAIN m_priorityRoute' = DOMAIN m_priorityRoute \ {old}
                         /\ \A m \in DOMAIN m_namePriority' : m_namePriority'[m] = m_namePriority[m]
                         /\ \A q \in DOMAIN m_priorityRoute' : m_priorityRoute'[q] = m_priorityRoute[q]
                         /\ call'[c].env = m_priorityRoute[old][1].target
                         /\ fx'[c].delCalls = <<>>
        /\ (call[c].op = "removeRoute" /\ fx'[c].delCalls # fx[c].delCalls /\ pc[c] # "done") =>
              /\ pc[c] = "rm_delenv" /\ pc'[c] = "done" /\ ret'[c] = "ok"
              /\ fx'[c].delCalls = <<call[c].env>>
        /\ (call[c].op = "removeRoute" /\ pc[c] \in {"dump_read", "dump_store"}) =>
              pc'[c] \in {"dump_read", "dump_store", "rm_delenv"}
      ]_vars

\* A route removed, its environment deregistered, another route still there.
C8_Witness ==
    \E c \in Callers :
        /\ Returned(c, "removeRoute") /\ ret[c] = "ok" /\ Len(fx[c].delCalls) = 1
        /\ Cardinality(DOMAIN m_namePriority) = 1

\* C9: getRouteTable returns one (name, priority, target) row for every route
\* of the table and no other row, in strictly ascending priority order, and
\* leaves the table as it is.
C9_GetRouteTable ==
    [][\A c \in Callers :
        (pc[c] = "called" /\ call[c].op = "getRouteTable" /\ pc'[c] # "called") =>
            /\ pc'[c] = "done"
            /\ IsSortedListing(json'[c], m_namePriority, m_priorityRoute)
            /\ UNCHANGED <<tableVars, environments, storeTable>>
      ]_vars

\* getRouteTable has returned two rows.
C9_Witness ==
    \E c \in Callers : Returned(c, "getRouteTable") /\ Len(json[c]) = 2

\* C10: enqueueEvent answers NotRunning, the queue untouched, when it finds the
\* router not running; otherwise HighLoad, the queue untouched, when the queue is
\* full, and success with the event appended when it is not; the offer never
\* waits, and the queue never holds more than its capacity.
C10_EnqueueEvent ==
    [][/\ \A c \in Callers :
            /\ (pc[c] = "called" /\ call[c].op = "enqueueEvent" /\ pc'[c] # "called") =>
                  /\ queue' = queue
                  /\ IF m_isRunning
                       THEN pc'[c] = "enq_offer"
                       ELSE pc'[c] = "done" /\ ret'[c] = "NotRunning"
            /\ (pc[c] = "enq_offer" /\ pc'[c] # "enq_offer") =>
                  /\ pc'[c] = "done"
                  /\ IF Len(queue) >= QueueCapacity
                       THEN ret'[c] = "HighLoad" /\ queue' = queue
                       ELSE ret'[c] = "ok" /\ queue' = Append(queue, call[c].event)
       /\ Len(queue') > Len(queue) => \E c \in Callers : pc[c] = "enq_offer"
       /\ Len(queue') <= QueueCapacity
      ]_vars

\* An offer refused on a full queue.
C10_Witness ==
    \E c \in Callers :
        /\ Returned(c, "enqueueEvent") /\ ret[c] = "HighLoad"
        /\ Len(queue) = QueueCapacity

\* C11: whenever no run() or stop() call is in progress, the live worker threads
\* number 0 or NumThreads, and every live thread consumes the queue that is
\* installed in m_queue: a run() that finds workers active spawned nothing.
C11_WorkersZeroOrNumThreads ==
    (\A c \in Callers : lc[c].pc = "idle") =>
        /\ Cardinality(LiveThreads) \in {0, NumThreads}
        /\ \A k \in LiveThreads : m_threads[k].queue = m_queue

\* C12: when stop() returns from a running router the flag is false, every
\* worker had left its loop and the worker set is empty; while the router is
\* stopped no worker exists, so nothing is forwarded, and nothing but run()
\* changes the flag, the installed queue or the worker set: stop() on a router
\* that is not running changes nothing.
C12_StopIsBarrier ==
    [][/\ (ctl = "joining" /\ ctl' = "idle") =>
              /\ ~m_isRunning'
              /\ \A i \in Workers : worker[i].st = "finished" /\ worker'[i].st = "none"
       /\ (ctl = "idle" /\ ~m_isRunning) =>
              /\ \A i \in Workers : worker[i].st = "none"
              /\ m_isRunning' \/ UNCHANGED <<m_isRunning, m_queue, worker, ctl>>
       /\ \A i \in Workers :
              (worker[i].st = "forward" /\ worker'[i].st # "forward") =>
                  m_isRunning \/ ctl = "joining"
      ]_vars

\* stop() has returned on a router that had run, with an event left in the queue.
C12_Witness ==
    /\ ctl = "idle" /\ ~m_isRunning /\ m_queue # NoQueue
    /\ queue # <<>>
    /\ \A i \in Workers : worker[i].st = "none"

\* C13: a worker holds the shared lock of the route table in no position
\* between its steps: not inside forwardEvent, and not on its way back to the
\* dequeue after an event no route accepted; so a caller waiting for the
\* exclusive lock can take it while a forward call is in progress.
C13_NoLockAcrossForward ==
    /\ \A i \in Workers : ~worker[i].lock
    /\ (\E i \in Workers : worker[i].st = "forward") =>
          \A c \in Callers :
              /\ pc[c] = "add_link" => ENABLED AddRouteLink(c)
              /\ InCall(c, "removeRoute") => ENABLED RemoveRouteLocked(c)
              /\ InCall(c, "changeRoutePriority") => ENABLED ChangeRoutePriorityLocked(c)

\* A forward call in progress while addRoute is about to take the exclusive lock.
C13_Witness ==
    /\ \E i \in Workers : worker[i].st = "forward" /\ ~worker[i].lock
    /\ \E c \in Callers : pc[c] = "add_link"

\* The priorities under which the route built for a name is filed.
KeysOf(pr, name) == {k \in DOMAIN pr : \E i \in DOMAIN pr[k] : pr[k][i].filter = name}

\* A table in which every route is filed under exactly one priority, the
\* priority its name is mapped to, and no other route exists.
WholeTable(np, pr) ==
    /\ \A n \in DOMAIN np : KeysOf(pr, n) = {np[n]}
    /\ \A k \in DOMAIN pr : \A i \in DOMAIN pr[k] : pr[k][i].filter \in DOMAIN np

\* One complete mutation: a route added to both indices, removed from both,
\* or moved from its old priority to a new one in both.
WholeMutation(np, pr, np2, pr2) ==
    \/ \E n \in DOMAIN np2 \ DOMAIN np :
          /\ DOMAIN np2 = DOMAIN np \cup {n} /\ DOMAIN pr2 = DOMAIN pr \cup {np2[n]}
          /\ np2[n] \notin DOMAIN pr
          /\ \A m \in DOMAIN np : np2[m] = np[m] /\ pr2[np[m]] = pr[np[m]]
    \/ \E n \in DOMAIN np \ DOMAIN np2 :
          /\ DOMAIN np2 = DOMAIN np \ {n} /\ DOMAIN pr2 = DOMAIN pr \ {np[n]}
          /\ \A m \in DOMAIN np2 : np2[m] = np[m] /\ pr2[np[m]] = pr[np[m]]
    \/ \E n \in DOMAIN np :
          /\ DOMAIN np2 = DOMAIN np /\ np2[n] # np[n]
          /\ DOMAIN pr2 = (DOMAIN pr \ {np[n]}) \cup {np2[n]}
          /\ \A m \in DOMAIN np \ {n} : np2[m] = np[m] /\ pr2[np[m]] = pr[np[m]]

C15_OnlyStoreFailureIsFatal ==
    [][/\ ~alive => UNCHANGED vars
       /\ (alive /\ ~alive') =>
              /\ \E c \in Callers : pc[c] = "dump_store"
              /\ UNCHANGED <<tableVars, environments, storeTable, dispatchVars, callerVars>>
       /\ \A c \in Callers :
              /\ (pc[c] = "dump_store" /\ pc'[c] # "dump_store") =>
                    alive' /\ storeTable' = json[c] /\ fx'[c].upd = fx[c].upd + 1
              /\ (pc'[c] = "done" /\ pc[c] # "done") => alive'
       /\ \A i \in Workers : worker'[i] # worker[i] => alive /\ alive'
      ]_vars

\* The process has ended on a failed snapshot with an event in a worker's hand
\* and another in the queue.
C15_Witness ==
    /\ ~alive
    /\ \E c \in Callers : pc[c] = "dump_store"
    /\ \E i \in Workers : worker[i].st = "forward"
    /\ queue # <<>>

\* C16: a worker leaves its loop only at the loop condition, on reading the
\* flag false.  Whatever forwardEvent returned, and when no route accepted the
\* event, the event is gone and the worker is back at the loop condition; with
\* the flag true it goes on to the dequeue, and takes the event at the head of
\* the queue.
C16_WorkerKeepsConsuming ==
    [][\A i \in Workers :
        /\ (worker'[i].st = "finished" /\ worker[i].st # "finished") =>
              worker[i].st = "loop" /\ ~m_isRunning
        /\ (worker[i].st = "forward" /\ worker'[i] # worker[i]) =>
              worker'[i] = IdleWorker("loop")
        /\ (worker[i].st = "have" /\ worker'[i] # worker[i]
              /\ Accepting(m_priorityRoute, i, worker[i].ev) = {}) =>
              worker'[i] = IdleWorker("loop")
        /\ (worker[i].st = "loop" /\ worker'[i] # worker[i] /\ m_isRunning) =>
              worker'[i] = IdleWorker("wait")
        /\ (worker[i].st = "wait" /\ worker'[i] # worker[i]) =>
              IF queue = <<>> THEN worker'[i] = IdleWorker("loop")
              ELSE worker'[i].st = "have" /\ worker'[i].ev = Head(queue) /\ queue' = Tail(queue)
      ]_vars

\* A running router: a worker holds an event that no route of the table
\* accepts, and the next event is in the queue.
C16_Witness ==
    /\ m_isRunning /\ queue # <<>>
    /\ m_priorityRoute # EmptyMap
    /\ \E i \in Workers :
          /\ worker[i].st = "have"
          /\ Accepting(m_priorityRoute, i, worker[i].ev) = {}

\* The policies the active sessions use.
ActivePolicies(act) == {act[x].policyName : x \in DOMAIN act}

\* C17: createSession answers SessionExists when the name is that of an active
\* session, PolicyBound when the policy is the policy of an active session,
\* and in both cases leaves the three maps as they were; otherwise it
\* succeeds, getSession of the name then returns the session with the policy,
\* filter, route, lifespan and description given, and the other sessions are
\* as before.
C17_CreateSession ==
    [][request'.op = "createSession" =>
        LET given == request'.session IN
        IF given.sessionName \in DOMAIN m_activeSessions
          THEN request'.ret = "SessionExists" /\ UNCHANGED sessionMaps
          ELSE IF given.policyName \in ActivePolicies(m_activeSessions)
            THEN request'.ret = "PolicyBound" /\ UNCHANGED sessionMaps
            ELSE /\ request'.ret = "ok"
                 /\ FindSession(m_activeSessions', given.sessionName) = given
                 /\ DOMAIN m_activeSessions' = DOMAIN m_activeSessions \cup {given.sessionName}
                 /\ \A x \in DOMAIN m_activeSessions : m_activeSessions'[x] = m_activeSessions[x]
      ]_vars

\* createSession has just refused a policy that another active session uses.
C17_Witness ==
    /\ request.op = "createSession" /\ request.ret = "PolicyBound"
    /\ request.session.sessionName \notin DOMAIN m_activeSessions
    /\ \E x \in DOMAIN m_activeSessions : m_activeSessions[x].policyName = request.session.policyName

\* C18: the policy map has no more entries than there are active sessions,
\* every value of the route map is the name of an active session, and every
\* value of the policy map is a key of the route map whose value is the name
\* of an active session.
C18_MapsLeadToSessions ==
    /\ Cardinality(DOMAIN m_policyMap) <= Cardinality(DOMAIN m_activeSessions)
    /\ \A r \in DOMAIN m_routeMap : m_routeMap[r] \in DOMAIN m_activeSessions
    /\ \A p \in DOMAIN m_policyMap :
          /\ m_policyMap[p] \in DOMAIN m_routeMap
          /\ m_routeMap[m_policyMap[p]] \in DOMAIN m_activeSessions

\* C19: the session stored under a name carries that name, no two active
\* sessions use the same policy, and the policy map has exactly the policies of
\* the active sessions as its keys, each bound to the route of the session
\* that uses it.
C19_PolicyBoundOnce ==
    /\ \A x \in DOMAIN m_activeSessions : m_activeSessions[x].sessionName = x
    /\ \A x, y \in DOMAIN m_activeSessions :
          m_activeSessions[x].policyName = m_activeSessions[y].policyName => x = y
    /\ DOMAIN m_policyMap = ActivePolicies(m_activeSessions)
    /\ \A x \in DOMAIN m_activeSessions :
          m_policyMap[m_activeSessions[x].policyName] = m_activeSessions[x].routeName

\* Two active sessions that share a route name, the second just created.
C19_Witness ==
    /\ request.op = "createSession" /\ request.ret = "ok"
    /\ \E x, y \in DOMAIN m_activeSessions :
          /\ x # y
          /\ m_activeSessions[x].routeName = m_activeSessions[y].routeName

\* C20: deleteSession of a name that is not an active session returns false
\* and leaves the three maps as they were; of an active session it returns
\* true, and in that one step the name leaves the session map, the session's
\* route the route map and its policy the policy map, the other sessions
\* staying.
C20_DeleteSession ==
    [][request'.op = "deleteSession" =>
        LET name == request'.sessionName IN
        IF name \notin DOMAIN m_activeSessions
          THEN request'.ret = FALSE /\ UNCHANGED sessionMaps
          ELSE /\ request'.ret = TRUE
               /\ m_activeSessions' = MapErase(m_activeSessions, name)
               /\ m_activeSessions[name].routeName \notin DOMAIN m_routeMap'
               /\ m_activeSessions[name].policyName \notin DOMAIN m_policyMap'
               /\ \A r \in DOMAIN m_routeMap' : r \in DOMAIN m_routeMap /\ m_routeMap'[r] = m_routeMap[r]
               /\ \A p \in DOMAIN m_policyMap' : p \in DOMAIN m_policyMap /\ m_policyMap'[p] = m_policyMap[p]
      ]_vars

\* deleteSession has returned true and another session is still active.
C20_Witness ==
    /\ request.op = "deleteSession" /\ request.ret = TRUE
    /\ request.sessionName \notin DOMAIN m_activeSessions
    /\ m_activeSessions # EmptyMap

\* C21: deleteAllSessions empties the session map, the route map and the
\* policy map in its one step and returns true; the request served next finds
\* no session: getSessionsList returns no name, doesSessionExist is false for
\* every name, and createSession succeeds whatever the name and the policy.
C21_DeleteAllSessions ==
    [][/\ request'.op = "deleteAllSessions" =>
              /\ request'.ret = TRUE
              /\ m_activeSessions' = EmptyMap /\ m_routeMap' = EmptyMap /\ m_policyMap' = EmptyMap
       /\ request.op = "deleteAllSessions" =>
              /\ request'.op = "getSessionsList" => request'.ret = {}
              /\ request'.op = "doesSessionExist" => request'.ret = FALSE
              /\ request'.op = "getSession" => request'.ret = NoSession
              /\ request'.op = "createSession" =>
                    /\ request'.ret = "ok"
                    /\ DOMAIN m_activeSessions' = {request'.session.sessionName}
      ]_vars

\* deleteAllSessions has just returned and the three maps are empty.
C21_Witness ==
    /\ request.op = "deleteAllSessions"
    /\ request.ret = TRUE
    /\ m_activeSessions = EmptyMap /\ m_routeMap = EmptyMap /\ m_policyMap = EmptyMap

\* C22: whenever a helper operator has returned Failure, the event is the
\* event it was given; array.append that meets a missing reference after
\* earlier arguments and field.rename whose erase fails after the copy
\* included.
C22_FailureLeavesEvent ==
    applied.result = "Failure" => opEvent = applied.before

\* C23: string.replace terminates: once the lambda is past its checks, with
\* whatever target string, old substring (literal or referenced) and new
\* substring, the new one containing the old one included, it returns.
C23_ReplaceTerminates == (repl.pc \in {"find", "replace", "set"}) ~> (repl.pc = "done")

\* string.replace has returned Success after replacing at least once, with a
\* new substring that contains the old one and is longer.
C23_Witness ==
    /\ repl.pc = "done" /\ applied.op = "string.replace" /\ applied.result = "Success"
    /\ Find(repl.newSubstring, repl.oldSubstring, 0) # npos
    /\ Len(repl.newSubstring) > Len(repl.oldSubstring)
    /\ opEvent # applied.before

\* A rename that succeeded is followed by the reverse rename, which succeeds.
RenamedBack ==
    /\ applied.op = "field.rename" /\ applied.result = "Success"
    /\ applied'.op = "field.rename" /\ applied'.result = "Success"
    /\ applied'.n = applied.n + 1
    /\ applied'.target = applied.parameters[1].path
    /\ applied'.parameters[1].path = applied.target

\* The path but for its last segment.
Parent(path) == SubSeq(path, 1, Len(path) - 1)

HexGiven == GetString(applied.before, applied.parameters[1].path)

\* C25: string.fromHex given the two-hex-digits-per-character encoding of an
\* ASCII string s returns Success and the target then holds s: the same
\* length, the same characters.
C25_FromHexDecodes ==
    \A str \in AsciiStrings :
        (applied.op = "string.fromHex" /\ HexGiven = JString(HexEncode(str)))
            => (applied.result = "Success" /\ GetJson(opEvent, applied.target) = JString(str))

\* C26: string.fromHex returns Failure and leaves the target as it was when
\* the string it is given has an odd length or holds a character that is no
\* hexadecimal digit, a sign or a white space inside a pair included.
C26_FromHexRejects ==
    (/\ applied.op = "string.fromHex"
     /\ HexGiven # Absent
     /\ \/ Len(HexGiven.s) % 2 = 1
        \/ \E i \in 1..Len(HexGiven.s) : HexDigitValue(HexGiven.s[i]) < 0)
        => (/\ applied.result = "Failure"
            /\ GetJson(opEvent, applied.target) = GetJson(applied.before, applied.target))

\* C27: int.calc with div never divides by zero.  Its construction throws
\* for the literal operand 0.  At run time a referenced operand that is 0
\* gives Failure, and so do a missing target and a missing referenced operand,
\* each with the event as it was; the lambda never throws, and when it returns
\* Success the divisor was not 0 and the target holds the quotient.
C27_DivNeverByZero ==
    (applied.op = "int.calc" /\ applied.parameters[1].name = "div") =>
        LET right == applied.parameters[2]
            lValue == GetInt(applied.before, applied.target)
            unchanged == applied.result = "Failure" /\ opEvent = applied.before
        IN IF right.type = "VALUE"
             THEN /\ right.text = Str(<<"0">>) => applied.result = "throw"
                  /\ (applied.result # "throw" /\ lValue = Absent) => unchanged
                  /\ applied.result = "Success" =>
                        /\ Stoi(right.text).value # 0
                        /\ GetInt(opEvent, applied.target) = JInt(Quotient(lValue.i, Stoi(right.text).value))
             ELSE LET rValue == GetInt(applied.before, right.path)
                  IN /\ applied.result # "throw"
                     /\ (lValue = Absent \/ rValue = Absent \/ rValue = JInt(0)) => unchanged
                     /\ applied.result = "Success" =>
                           GetInt(opEvent, applied.target) = JInt(Quotient(lValue.i, rValue.i))

\* int.calc with div and a referenced operand that is 0 has returned Failure
\* on an event whose target is an integer.
C27_Witness ==
    /\ applied.op = "int.calc" /\ applied.parameters[1].name = "div"
    /\ applied.parameters[2].type = "REFERENCE"
    /\ GetInt(applied.before, applied.parameters[2].path) = JInt(0)
    /\ GetInt(applied.before, applied.target) # Absent
    /\ applied.result = "Failure"

\* C28: time.epochNow returns Success with the target holding the count of
\* seconds of the clock, which is then at most INT_MAX, or, the count being
\* greater than INT_MAX, returns Failure with the event as it was; the target
\* never holds a count cut down to an int.
C28_EpochNowFitsOrFails ==
    applied.op = "time.epochNow" =>
        LET sec == applied.parameters[1].sec
        IN IF sec > INT_MAX
             THEN applied.result = "Failure" /\ opEvent = applied.before
             ELSE applied.result = "Success" /\ GetJson(opEvent, applied.target) = JInt(sec)

\* time.epochNow has returned Failure for a clock beyond INT_MAX, on an
\* event that holds the target.
C28_Witness ==
    /\ applied.op = "time.epochNow"
    /\ applied.parameters[1].sec > INT_MAX
    /\ applied.result = "Failure"
    /\ Exists(opEvent, applied.target)

\* r is str without its maximal leading / trailing run of the character c.
StripsLeading(str, r, c) ==
    \E k \in 0..Len(str) :
        /\ \A i \in 1..k : str[i] = c
        /\ r = SubSeq(str, k + 1, Len(str))
        /\ r = <<>> \/ r[1] # c

StripsTrailing(str, r, c) ==
    \E k \in 0..Len(str) :
        /\ \A i \in (Len(str) - k + 1)..Len(str) : str[i] = c
        /\ r = SubSeq(str, 1, Len(str) - k)
        /\ r = <<>> \/ r[Len(r)] # c

\* C29: string.trim.  Its construction throws for a trim type other than
\* begin, end and both and for a trim char that is not one character long.
\* At run time it returns Failure, the event as it was, when the target is
\* no string; otherwise it returns Success and the target holds the string
\* without its maximal leading run of the char (begin), trailing run (end) or
\* both (both), the empty string when the string was made of the char only.
\* Applied again with the same parameters it succeeds and changes nothing.
C29_Trim ==
    [][applied'.op = "string.trim" =>
          LET trimType == applied'.parameters[1].name
              trimChar == applied'.parameters[2].text
              given == GetString(applied'.before, applied'.target)
              written == GetJson(opEvent', applied'.target)
          IN IF trimType \notin {"begin", "end", "both"} \/ Len(trimChar) # 1
               THEN applied'.result = "throw"
             ELSE IF given = Absent
               THEN applied'.result = "Failure" /\ opEvent' = applied'.before
             ELSE /\ applied'.result = "Success"
                  /\ written.t = "string"
                  /\ trimType = "begin" => StripsLeading(given.s, written.s, trimChar[1])
                  /\ trimType = "end" => StripsTrailing(given.s, written.s, trimChar[1])
                  /\ trimType = "both" =>
                        \E m \in {SubSeq(given.s, i, Len(given.s)) : i \in 1..(Len(given.s) + 1)} :
                            StripsLeading(given.s, m, trimChar[1]) /\ StripsTrailing(m, written.s, trimChar[1])
                  /\ (\A i \in 1..Len(given.s) : given.s[i] = trimChar[1]) => written.s = <<>>
                  /\ (/\ applied.op = "string.trim" /\ applied.result = "Success"
                      /\ applied.target = applied'.target
                      /\ applied.parameters = applied'.parameters) => opEvent' = opEvent
      ]_vars

\* string.trim with both has returned Success on a string that began and
\* ended with the char and held another character: both runs are gone.
C29_Witness ==
    /\ applied.op = "string.trim" /\ applied.result = "Success"
    /\ applied.parameters[1].name = "both"
    /\ LET given == GetString(applied.before, applied.target).s
           c == applied.parameters[2].text[1]
       IN /\ Len(given) = MaxLen /\ given[1] = c /\ given[MaxLen] = c
          /\ GetString(opEvent, applied.target).s = SubSeq(given, 2, MaxLen - 1)
          /\ given[2] # c

\* The required fields of the administrative actions, in the order the spec
\* lists them, and the response the spec gives for a missing one.
RequiredFields ==
    [set |-> <<"name", "priority", "target">>,
     delete |-> <<"name">>,
     change_priority |-> <<"name", "priority">>,
     enqueue_event |-> <<"event">>]

MissingFieldMessage ==
    [name |-> "Error: Missing \"name\" parameter",
     priority |-> "Error: Missing \"priority\" parameter",
     target |-> "Error: Missing \"target\" parameter",
     event |-> "Error: Missing \"event\" parameter"]

MissingFields(params) ==
    {i \in DOMAIN RequiredFields[params.action] : ~Has(params, RequiredFields[params.action][i])}

FirstMissing(params) ==
    RequiredFields[params.action][CHOOSE i \in MissingFields(params) : \A k \in MissingFields(params) : i <= k]

\* C30: a request for set, delete, change_priority or enqueue_event that
\* lacks a required field is answered 'Error: Missing "<field>" parameter'
\* with the first missing required field of its action, and the step that
\* serves it changes neither the route table nor the queue; a request with an
\* action that is none of the known ones is answered "Invalid action '<v>'".
C30_ApiErrors ==
    [][\A c \in Callers :
          (api'[c] # api[c] /\ api'[c].st = "responded" /\ Has(api'[c].params, "action")) =>
              LET params == api'[c].params
              IN /\ (params.action \in DOMAIN RequiredFields /\ MissingFields(params) # {}) =>
                        /\ api'[c].response = <<MissingFieldMessage[FirstMissing(params)]>>
                        /\ UNCHANGED <<tableVars, queue>>
                 /\ params.action \notin DOMAIN RequiredFields \cup {"get"} =>
                        api'[c].response = <<"Invalid action '", params.action, "'">>
      ]_vars

\* C31: every Logger call returns normally to its caller.  When a function
\* is registered for the level of the call it is invoked exactly once, with
\* the C strings of the tag and of the message and with the source location,
\* also when that function throws; when none is registered nothing is
\* invoked.  The call leaves the registered functions as they were.
C31_LoggerNeverFails ==
    [][logged' # logged =>
          /\ logged'.outcome = "returned"
          /\ m_logFunctions' = m_logFunctions
          /\ IF logged'.level \in DOMAIN m_logFunctions
               THEN logged'.invoked =
                        <<[fn |-> m_logFunctions[logged'.level],
                           tag |-> CutAtNul(logged'.tag),
                           file |-> logged'.sourceFile[1],
                           line |-> logged'.sourceFile[2],
                           func |-> logged'.sourceFile[3],
                           msg |-> CutAtNul(logged'.msg)]>>
               ELSE logged'.invoked = <<>>
      ]_vars

\* A debug call has returned after the function registered for DEBUG, one
\* that throws, was invoked; no function is registered for INFO.
C31_Witness ==
    /\ logged.level = "DEBUG" /\ logged.outcome = "returned"
    /\ "DEBUG" \in DOMAIN m_logFunctions /\ Throws(m_logFunctions["DEBUG"])
    /\ Len(logged.invoked) = 1 /\ logged.invoked[1].fn = "thrower"
    /\ "INFO" \notin DOMAIN m_logFunctions

\* The positions of the separators and of the dots of a text.
SeparatorsOf(text) == {i \in 1..Len(text) : text[i] \in {"/", "\\"}}
DotsOf(text) == {i \in 1..Len(text) : text[i] = "."}
IsLast(i, positions) == i \in positions /\ \A k \in positions : k <= i

\* C32: the file-path parser is built exactly when it is given an end token
\* and no option.  Built with one end token, a parse consumes the whole text
\* and writes name, the text after the last '/' or '\' (the whole text
\* without one), path, the text before that separator (the whole text without
\* one, "/" for the text "/"), ext, the text after the last '.' of name
\* (empty when name is empty) and drive_letter, the first character, only
\* when the text begins with a letter and ':'.  On every text of the test
\* suite FileParse the result and the position are those the suite expects,
\* and every case of FileBuild builds or fails as the suite expects.
C32_FilePathParser ==
    [][parsed' # parsed =>
          LET text == parsed'.text
              r == parsed'.result
          IN /\ (parsed'.st = "failed") <=> (parsed'.endTokens = <<>> \/ parsed'.options # <<>>)
             /\ \A b \in FileBuild :
                   (b.endTokens = parsed'.endTokens /\ b.options = parsed'.options) =>
                       (b.expected = "FAILURE") = (parsed'.st = "failed")
             /\ parsed'.st = "parsed" =>
                   /\ Len(parsed'.endTokens) = 1 /\ parsed'.options = <<>>
                   /\ parsed'.index = Len(text)
                   /\ SeparatorsOf(text) = {} => r.name = text /\ r.path = text
                   /\ \A i \in SeparatorsOf(text) :
                         IsLast(i, SeparatorsOf(text)) =>
                             /\ r.name = SubSeq(text, i + 1, Len(text))
                             /\ r.path = IF text = <<"/">> THEN <<"/">> ELSE SubSeq(text, 1, i - 1)
                   /\ r.name = <<>> => r.ext = <<>>
                   /\ \A i \in DotsOf(r.name) :
                         IsLast(i, DotsOf(r.name)) => r.ext = SubSeq(r.name, i + 1, Len(r.name))
                   /\ ("drive_letter" \in DOMAIN r) <=>
                          (Len(text) >= 2 /\ text[1] \in Letters /\ text[2] = ":")
                   /\ "drive_letter" \in DOMAIN r => r.drive_letter = <<text[1]>>
                   /\ DOMAIN r \subseteq {"path", "name", "ext", "drive_letter"}
                   /\ \A t \in FileParse :
                         t.text = text => r = t.expected /\ parsed'.index = t.index
      ]_vars

\* The path of the suite with a drive letter has been parsed.
C32_Witness ==
    /\ parsed.st = "parsed"
    /\ Len(parsed.text) = 29 /\ parsed.text[1] = "C" /\ parsed.text[2] = ":"
    /\ parsed.result.drive_letter = <<"C">>
    /\ parsed.result.ext = <<"e", "x", "e">>

\* C33: with every thread scheduled again and again, a stop() call that has
\* found the router running returns, whatever run() and stop() calls of other
\* threads overlap it.
C33_StopReturns ==
    \A c \in Callers : (lc[c].pc = "stop_store") ~> (lc[c].pc = "idle")

\* The events a worker has in hand and the places an event is at.
InHand(i) == worker[i].ev # NoEvent
HoldersOf(e) == {i \in Workers : worker[i].ev = e}
PlacesOf(e) == Cardinality({k \in DOMAIN queue : queue[k] = e}) + Cardinality(HoldersOf(e))

\* At most once: an event enters the queue only by the offer of the
\* enqueueEvent call that carries it, which then returns success; a worker
\* gets an event in hand only by taking the head of the queue off the queue,
\* and no other worker gets it; the worker then hands it to forwardEvent once
\* or drops it when no route accepts it; at no time is an event at two places.
EachEventOneWorker ==
    [][/\ \A e \in ProducerEvents : PlacesOf(e)' <= 1
       /\ Len(queue') > Len(queue) =>
             /\ pc[Producer] = "enq_offer" /\ queue' = Append(queue, call[Producer].event)
             /\ ret'[Producer] = "ok" /\ pc'[Producer] = "done"
             /\ PlacesOf(call[Producer].event) = 0
             /\ worker' = worker
       /\ Len(queue') < Len(queue) =>
             /\ queue' = Tail(queue)
             /\ \E i \in Workers :
                   /\ ~InHand(i) /\ worker'[i].ev = Head(queue) /\ worker'[i].st = "have"
                   /\ \A j \in Workers \ {i} : worker'[j] = worker[j]
       /\ \A i \in Workers :
             /\ (worker'[i].ev # worker[i].ev /\ worker'[i].ev # NoEvent) =>
                   queue # <<>> /\ worker'[i].ev = Head(queue) /\ queue' = Tail(queue)
             /\ (worker[i].st = "have" /\ worker'[i] # worker[i]) =>
                   \/ worker'[i].st = "forward" /\ worker'[i].ev = worker[i].ev
                   \/ worker'[i] = IdleWorker("loop")
             /\ (worker[i].st = "forward" /\ worker'[i] # worker[i]) =>
                   worker'[i] = IdleWorker("loop")
      ]_vars

\* Eventually: an event in the queue or in the hand of a worker of a running
\* router is taken off the queue and forwarded or dropped, unless the router
\* stops running first (stop() clears the flag, or the process exits).
EachEventHandled ==
    \A e \in ProducerEvents :
        (alive /\ m_isRunning /\ PlacesOf(e) = 1) ~> (PlacesOf(e) = 0 \/ ~m_isRunning \/ ~alive)

\* C34: every event of a successful enqueueEvent is taken off the queue by
\* one worker, which forwards it once or drops it, and no second worker ever
\* has it; with the worker threads scheduled again and again this happens to
\* each such event as long as the router stays running.
C34_ExactlyOneWorker == EachEventOneWorker /\ EachEventHandled

\* An event of a successful enqueueEvent is in the hand of the second worker,
\* on its way to forwardEvent, while the first worker holds another one.
C34_Witness ==
    /\ ret[Producer] = "ok"
    /\ worker[2].st = "forward" /\ worker[1].st = "have"
    /\ worker[1].ev # worker[2].ev

\* C35: whenever every addRoute, removeRoute and changeRoutePriority call of
\* the concurrent callers has returned, the table last handed to store.update
\* is the route table in memory.
C35_StoreIsCurrent ==
    (alive /\ \A c \in Callers : pc[c] \in {"idle", "done"}) =>
        storeTable = GetRouteTable(m_namePriority, m_priorityRoute)

\* The environments the routes of a table target.
TargetsOf(pr) == {pr[p][i].target : p \in DOMAIN pr, i \in Workers}

RECURSIVE ReplacedAll(_, _, _)
ReplacedAll(s, old, new) ==
    IF Len(s) < Len(old) THEN s
    ELSE IF SubSeq(s, 1, Len(old)) = old
      THEN new \o ReplacedAll(SubSeq(s, Len(old) + 1, Len(s)), old, new)
    ELSE <<Head(s)>> \o ReplacedAll(Tail(s), old, new)

\* C37: string.replace.  Its construction throws when old is an empty
\* literal.  At run time it returns Failure, the event as it was, when the
\* target is no string or an empty one and when old or new is a reference to
\* no string or to an empty one; otherwise it returns Success and the target
\* holds the string with every occurrence of old, found from left to right
\* without overlap and without a second look at what was put in, replaced by
\* new, the rest of the event as it was.
C37_Replace ==
    [][(applied' # applied /\ applied'.op = "string.replace") =>
          LET before == applied'.before
              paramOld == applied'.parameters[1]
              paramNew == applied'.parameters[2]
              given == GetString(before, applied'.target)
              old == ResolveSubstr(before, paramOld)
              new == ResolveSubstr(before, paramNew)
              NoString(f) == f = Absent \/ f.s = <<>>
          IN IF paramOld.type = "VALUE" /\ paramOld.text = <<>>
               THEN applied'.result = "throw" /\ opEvent' = before
             ELSE IF \/ NoString(given)
                     \/ paramOld.type = "REFERENCE" /\ NoString(old)
                     \/ paramNew.type = "REFERENCE" /\ NoString(new)
               THEN applied'.result = "Failure" /\ opEvent' = before
             ELSE /\ applied'.result = "Success"
                  /\ GetString(opEvent', applied'.target) = JString(ReplacedAll(given.s, old.s, new.s))
                  /\ GetJson(opEvent', <<"o">>) = GetJson(before, <<"o">>)
      ]_vars

\* string.replace has returned Success on "aaa" with old "aa": the first two
\* characters gave way, the third stayed.
C37_Witness ==
    /\ repl.pc = "done" /\ applied.op = "string.replace" /\ applied.result = "Success"
    /\ GetString(applied.before, applied.target) = JString(<<97, 97, 97>>)
    /\ repl.oldSubstring = <<97, 97>> /\ repl.newSubstring = <<98, 97>>
    /\ GetString(opEvent, applied.target) = JString(<<98, 97, 97>>)

\* C38: whenever field.rename(target = t, $s) returns Success, t holds the
\* value s held before the call and s exists no more, whatever the paths t
\* and s are, t = s and t present before the call included; when s does not
\* exist it returns Failure and leaves the event as it was.
C38_Rename ==
    [][(applied' # applied /\ applied'.op = "field.rename") =>
          LET before == applied'.before
              t == applied'.target
              s == applied'.parameters[1].path
          IN /\ applied'.result = "Success" =>
                    /\ Exists(opEvent', t)
                    /\ GetJson(opEvent', t) = GetJson(before, s)
                    /\ ~Exists(opEvent', s)
             /\ ~Exists(before, s) => applied'.result = "Failure" /\ opEvent' = before
      ]_vars

\* C39: for every int l in the target and every int r as operand, literal or
\* referenced, int.calc returns Success and the target holds l + r, l - r or
\* l * r wrapped around to an int, and under div with r not 0 the quotient
\* truncated towards zero, wrapped around, INT_MIN / -1 included; it never
\* aborts.
C39_CalcWraps ==
    [][(applied' # applied /\ applied'.op = "int.calc") =>
          LET opName == applied'.parameters[1].name
              right == applied'.parameters[2]
              l == GetInt(applied'.before, applied'.target).i
              r == IF right.type = "VALUE" THEN Stoi(right.text).value
                   ELSE GetInt(applied'.before, right.path).i
              exact == CASE opName = "sum" -> l + r
                         [] opName = "sub" -> l - r
                         [] opName = "mul" -> l * r
                         [] opName = "div" -> Quotient(l, r)
          IN /\ applied'.result # "abort"
             /\ (opName # "div" \/ r # 0) =>
                   /\ applied'.result = "Success"
                   /\ GetInt(opEvent', applied'.target) = JInt(ToInt(exact))
      ]_vars

\* C40: in every state the route of every active session is a key of the
\* route map whose value is the name of that session, and a deleteSession
\* that removes one session leaves every other active session its entry of
\* the route map and its entry of the policy map, also when two sessions were
\* created with the same route and different policies.
C40_RouteEntriesOfOthersKept ==
    /\ [](\A x \in DOMAIN m_activeSessions :
            /\ m_activeSessions[x].routeName \in DOMAIN m_routeMap
            /\ m_routeMap[m_activeSessions[x].routeName] = x)
    /\ [][(request'.op = "deleteSession" /\ m_activeSessions' # m_activeSessions) =>
            \A y \in DOMAIN m_activeSessions' :
                LET routeName == m_activeSessions'[y].routeName
                    policyName == m_activeSessions'[y].policyName
                IN  /\ routeName \in DOMAIN m_routeMap => routeName \in DOMAIN m_routeMap'
                    /\ policyName \in DOMAIN m_policyMap'
                    /\ m_policyMap'[policyName] \in DOMAIN m_routeMap'
         ]_vars
====
